---- MODULE Spec2Model ----
(***************************************************************************)
(* Verification model of ecg-player ("Caption With Intention"):            *)
(*   - assColorToCss, the exported colour conversion;                      *)
(*   - GSAPAnimationManager, the wave/bounce animation manager;            *)
(*   - CaptionWithIntention, the player: clock sampler, event resolver,    *)
(*     segmentation and per-character bounce effect.                       *)
(* Strings are sequences of one-character strings.  Times are integer      *)
(* ticks.  Lengths in pixels are integers; vertical offsets are kept in    *)
(* thousandths of a pixel.                                                 *)
(***************************************************************************)
EXTENDS Integers, Sequences, FiniteSets, TLC

VARIABLES
    colorIn,            \* argument handed to assColorToCss
    colorOut,           \* its result ("#RRGGBB"), <<>> before the call
    colorBack,          \* result of converting the result back, <<>> before
    timingData,         \* useState timingData: <<>> (null) or <<document>>
    activeAnimations,   \* GSAPAnimationManager.activeAnimations: id -> timeline
    waveAnimations,     \* GSAPAnimationManager.waveAnimations: id -> wave record
    elY,                \* transform y of every character element, in 1/1000 px
    lastCall,           \* the call made last, with its argument
    currentTime,        \* useState currentTime
    syncOffset,         \* the syncOffset prop
    containerSize,      \* actualSize: [width, height]
    segmentCache,       \* segmentCacheRef.current: cacheKey -> segments
    currentSegmentIndex,\* currentSegmentIndexRef.current: cacheKey -> index
    lineGroups,         \* lineGroups of the last render: <<top, bottom>>
    isPlaying,          \* useState isPlaying
    committed,          \* the state the last commit rendered
    vfcPending,         \* a requestVideoFrameCallback callback is registered
    rafPending,         \* a requestAnimationFrame callback is registered
    hasRVFC,            \* 'requestVideoFrameCallback' in video
    orphanCallbacks,    \* registered callbacks no ref names any more:
                        \* [vfc |-> count, raf |-> count]
    charRefs,           \* mounted CharacterWithBounce -> lastAnimationTimeRef
    colorRefs,          \* mounted CharacterWithBounce -> lastColorTransitionRef
    mounted,            \* the player component is mounted
    resizeObserver,     \* the pending resize timeout and the last notification
                        \* (last), with the word it shows and the colour
                        \* transitions created while it shows that word
    sinceEvent,         \* last play/pause event handled, and whether
                        \* currentTime was published since
    waveChar,           \* SpecWave: index of the character being animated
    error,              \* useState error: <<>> (null) or <<message>>
    isLoading,          \* useState isLoading
    pendingLoads,       \* load attempts awaiting their promise:
                        \* [url |-> count, file |-> count]
    loadRequests        \* the loadTimingSync calls by url: those awaiting
                        \* their fetch, how many were made, how the last
                        \* one made has ended

colorVars == <<colorIn, colorOut, colorBack>>
managerVars == <<activeAnimations, waveAnimations, elY, lastCall>>
renderVars == <<currentTime, syncOffset, containerSize, segmentCache,
                currentSegmentIndex, lineGroups>>

loaderVars == <<error, isLoading, pendingLoads, loadRequests>>

hostVars == <<mounted, resizeObserver>>

clockVars == <<isPlaying, committed, vfcPending, rafPending, hasRVFC,
               orphanCallbacks, charRefs, colorRefs, sinceEvent>>

vars == <<colorIn, colorOut, colorBack, timingData,
          activeAnimations, waveAnimations, elY, lastCall, waveChar,
          currentTime, syncOffset, containerSize, segmentCache,
          currentSegmentIndex, lineGroups, isPlaying, committed, vfcPending,
          rafPending, hasRVFC, orphanCallbacks, charRefs, colorRefs, mounted, resizeObserver,
          sinceEvent,
          error, isLoading, pendingLoads, loadRequests>>

(***************************************************************************)
(* Bounds                                                                  *)
(***************************************************************************)
\* how many of the sixteen hex digits take part in generated colours
NumHexDigits == 3
\* document times are the ticks 0..MaxTime
MaxTime == 3
\* longest word text, in characters
MaxChars == 2
\* most events of a generated document
MaxEvents == 2
\* words of one event and characters of one word in the segmentation runs
MaxWords == 3
MaxWordLen == 4

(***************************************************************************)
(* String helpers (JavaScript String.prototype semantics)                  *)
(***************************************************************************)
Min(a, b) == IF a <= b THEN a ELSE b
Max(a, b) == IF a >= b THEN a ELSE b

\* s.slice(from, to) with 0-based, non-negative, end-exclusive indices
slice(s, from, to) ==
    LET f == Min(from, Len(s))
        t == Min(to, Len(s))
    IN  IF t <= f THEN <<>> ELSE SubSeq(s, f + 1, t)

\* s.slice(-n): the last n characters (all of s when it is shorter)
sliceLast(s, n) == slice(s, Max(Len(s) - n, 0), Len(s))

\* s.replace(pat, ''): removes the first occurrence of pat, if any
replace(s, pat) ==
    LET hits == { i \in 1..(Len(s) - Len(pat) + 1) :
                     SubSeq(s, i, i + Len(pat) - 1) = pat }
    IN  IF hits = {} THEN s
        ELSE LET i == CHOOSE k \in hits : \A j \in hits : k <= j
             IN  SubSeq(s, 1, i - 1) \o SubSeq(s, i + Len(pat), Len(s))

(***************************************************************************)
(* assColorToCss                                                           *)
(***************************************************************************)
\* mutant: the three bytes are rotated instead of reversed
assColorToCssRotated(assColor) ==
    LET hex == replace(replace(assColor, <<"&", "H">>), <<"&">>)
        bgr == sliceLast(hex, 6)
    IN  <<"#">> \o slice(bgr, 2, 4) \o slice(bgr, 4, 6) \o slice(bgr, 0, 2)

\* mutant: the alpha digits leak into the result (slice(0, 6) for slice(-6))
assColorToCssHead(assColor) ==
    LET hex == replace(replace(assColor, <<"&", "H">>), <<"&">>)
        bgr == slice(hex, 0, 6)
    IN  <<"#">> \o slice(bgr, 4, 6) \o slice(bgr, 2, 4) \o slice(bgr, 0, 2)

assColorToCss(assColor) ==
    LET hex == replace(replace(assColor, <<"&", "H">>), <<"&">>)
    IN  IF hex = <<"0", "0", "F", "F", "F", "F", "F", "F">>
        THEN <<"#", "F", "F", "F", "F", "F", "F">>
        ELSE LET bgr == sliceLast(hex, 6)
                 b   == slice(bgr, 0, 2)
                 g   == slice(bgr, 2, 4)
                 r   == slice(bgr, 4, 6)
             IN  <<"#">> \o r \o g \o b

(***************************************************************************)
(* Map helpers (JavaScript Map)                                            *)
(***************************************************************************)
EmptyMap == <<>>
MapHas(m, k) == k \in DOMAIN m
MapSet(m, k, v) == [x \in (DOMAIN m) \cup {k} |-> IF x = k THEN v ELSE m[x]]
MapDelete(m, k) == [x \in (DOMAIN m) \ {k} |-> m[x]]

(***************************************************************************)
(* Timing model (the fields the modelled code reads).  An optional field   *)
(* is a sequence of length 0 (absent) or 1.                                *)
(***************************************************************************)
\* CharacterTiming
CharTiming(st, en, hasPeak, peak) ==
    [start_time |-> st, end_time |-> en, hasPeak |-> hasPeak, peak_time |-> peak]

\* Word['bouncing_animation']; wave_cycles is kept doubled (0 = not given),
\* character_timings is <<>> when not given
Bouncing(enabled, minPct, maxPct, cyclesX2, timings) ==
    [enabled |-> enabled, min_height_percent |-> minPct,
     max_height_percent |-> maxPct, wave_cycles_x2 |-> cyclesX2,
     character_timings |-> timings]

\* a character element: caption line, event, word position in the displayed
\* segment, data-char-index
Element(line, ev, w, c) == [line |-> line, event_id |-> ev, word |-> w, charIndex |-> c]

(***************************************************************************)
(* Trigonometry on a grid of 15 degrees, values in thousandths             *)
(***************************************************************************)
\* |sin(k * 15deg)| * 1000, k taken modulo 12 (|sin| has period 180deg)
AbsSinTable == <<0, 259, 500, 707, 866, 966, 1000, 966, 866, 707, 500, 259>>
AbsSin(k) == AbsSinTable[(k % 12) + 1]

\* cos(k * 15deg)^1.5 * 1000 for k = 0..6
DampingTable == <<1000, 949, 806, 595, 354, 132, 0>>

(***************************************************************************)
(* GSAPAnimationManager                                                    *)
(* The manager state is the record [active, wave, y]:                      *)
(*   active : animationId -> [element, state]                              *)
(*   wave   : animationId -> wave record                                   *)
(*   y      : element -> transform y in 1/1000 px (absent = no transform)  *)
(***************************************************************************)
Manager(active, wave, y) == [active |-> active, wave |-> wave, y |-> y]

\* `${element.dataset.charIndex || charIndex}-bounce`
\* mutant: one id per caption line and character index
bounceIdPerLine(element) == <<element.charIndex + MaxWordLen * (element.line + 1), "bounce">>

bounceId(element) == <<element.charIndex, "bounce">>

\* gsap.set(element, { y: value })
gsapSetY(y, element, value) == MapSet(y, element, value)

\* wave_cycles || 1.5, doubled
DefaultWaveCyclesX2 == 3

createBouncingAnimation(m, element, charIndex, wordLength, bouncingAnimation, screenHeight, startTime, wordDuration, pronunciationStart, charTiming) ==
    LET animationId == bounceId(element)
        \* an existing timeline under this id is killed
        killed == IF MapHas(m.active, animationId)
                  THEN MapSet(m.active, animationId,
                              [m.active[animationId] EXCEPT !.state = "killed"])
                  ELSE m.active
    IN  IF ~bouncingAnimation.enabled
        THEN Manager(killed, m.wave, m.y)
        ELSE LET bounceRange == (screenHeight *
                                   (bouncingAnimation.max_height_percent
                                      - bouncingAnimation.min_height_percent)) \div 100
                 \* charIndex * (2 PI / wordLength), in units of 15 degrees
                 charPhase == (charIndex * 24) \div wordLength
                 waveCyclesX2 == IF bouncingAnimation.wave_cycles_x2 # 0
                                 THEN bouncingAnimation.wave_cycles_x2
                                 ELSE DefaultWaveCyclesX2
             IN  Manager(MapSet(killed, animationId,
                                [element |-> element, state |-> "paused"]),
                         MapSet(m.wave, animationId,
                                [element |-> element,
                                 charPhase |-> charPhase,
                                 bounceRange |-> bounceRange,
                                 startTime |-> startTime,
                                 duration |-> wordDuration,
                                 waveCyclesX2 |-> waveCyclesX2,
                                 pronunciationStart |-> pronunciationStart,
                                 charTiming |-> charTiming]),
                         m.y)

\* timeline.play() on the timeline stored under animationId
playAnimation(m, animationId) ==
    IF MapHas(m.active, animationId) /\ m.active[animationId].state = "paused"
    THEN Manager(MapSet(m.active, animationId,
                        [m.active[animationId] EXCEPT !.state = "playing"]),
                 m.wave, m.y)
    ELSE m

\* charTiming?.start_time ?? startTime
animStartTime(data) ==
    IF data.charTiming # <<>> THEN data.charTiming[1].start_time ELSE data.startTime

\* charTiming ? (charTiming.end_time - charTiming.start_time) : duration
animDuration(data) ==
    IF data.charTiming # <<>>
    THEN data.charTiming[1].end_time - data.charTiming[1].start_time
    ELSE data.duration

\* charTiming?.peak_time ?? pronunciationStart
peakTime(data) ==
    IF data.charTiming # <<>> /\ data.charTiming[1].hasPeak
    THEN data.charTiming[1].peak_time
    ELSE data.pronunciationStart

\* -peakOffset * waveCycles * 2 PI + PI / 2, in units of 15 degrees
peakPhaseShift(data) ==
    6 - ((peakTime(data) - animStartTime(data)) * data.waveCyclesX2 * 12)
            \div animDuration(data)

\* mutant: the damping factor is left out
dampingNone(elapsed, duration) == 1000

\* Math.pow(Math.cos(progress * PI / 2), 1.5), in thousandths
damping(elapsed, duration) == DampingTable[((elapsed * 6) \div duration) + 1]

\* currentY for 0 <= elapsed <= animDuration, in 1/1000 px
currentY(data, videoTime) ==
    LET elapsed      == videoTime - animStartTime(data)
        wavePosition == (elapsed * data.waveCyclesX2 * 12) \div animDuration(data)
        sineValue    == AbsSin(wavePosition + data.charPhase + peakPhaseShift(data))
    IN  0 - ((data.bounceRange * sineValue * damping(elapsed, animDuration(data)))
                \div 1000)

\* the ids whose record updateWaveAnimations(videoTime) deletes
settledIds(wave, videoTime) ==
    { id \in DOMAIN wave :
        videoTime - animStartTime(wave[id]) > animDuration(wave[id]) }

\* the ids whose element updateWaveAnimations(videoTime) moves along the wave
wavingIds(wave, videoTime) ==
    { id \in DOMAIN wave :
        /\ videoTime - animStartTime(wave[id]) >= 0
        /\ videoTime - animStartTime(wave[id]) <= animDuration(wave[id]) }

\* mutant: a settled record is deleted but its element is not put back
updateWaveAnimationsNoReset(m, videoTime) ==
    Manager(m.active,
            [id \in (DOMAIN m.wave) \ settledIds(m.wave, videoTime) |-> m.wave[id]],
            m.y)

\* every record's element is on a different id, so the forEach order does
\* not matter
updateWaveAnimations(m, videoTime) ==
    LET waving  == wavingIds(m.wave, videoTime)
        settled == settledIds(m.wave, videoTime)
        moved   == { m.wave[id].element : id \in waving \cup settled }
        idOf(e) == CHOOSE id \in waving \cup settled : m.wave[id].element = e
    IN  Manager(m.active,
                [id \in (DOMAIN m.wave) \ settled |-> m.wave[id]],
                [e \in (DOMAIN m.y) \cup moved |->
                    IF e \in moved
                    THEN IF idOf(e) \in waving
                         THEN currentY(m.wave[idOf(e)], videoTime)
                         ELSE 0
                    ELSE m.y[e]])

\* mutant: clearAll discards the wave records as well
clearAllBoth(m) == Manager(EmptyMap, EmptyMap, m.y)

\* timeline.kill() on every timeline, activeAnimations.clear()
clearAll(m) == Manager(EmptyMap, m.wave, m.y)

\* mutant: pausing also drops the wave records and puts every element back
\* on the baseline
pauseAllResetting(m) ==
    Manager([id \in DOMAIN m.active |->
                IF m.active[id].state = "playing"
                THEN [m.active[id] EXCEPT !.state = "paused"]
                ELSE m.active[id]],
            EmptyMap, [el \in DOMAIN m.y |-> 0])

\* timeline.pause() on every timeline
pauseAll(m) ==
    Manager([id \in DOMAIN m.active |->
                IF m.active[id].state = "playing"
                THEN [m.active[id] EXCEPT !.state = "paused"]
                ELSE m.active[id]],
            m.wave, m.y)

\* timeline.resume() on every timeline
resumeAll(m) ==
    Manager([id \in DOMAIN m.active |->
                IF m.active[id].state = "paused"
                THEN [m.active[id] EXCEPT !.state = "playing"]
                ELSE m.active[id]],
            m.wave, m.y)

\* the timeline stored under animationId runs to its end: its zero-duration
\* set puts the element on the baseline, onComplete deletes the handle
timelineComplete(m, animationId) ==
    Manager(MapDelete(m.active, animationId),
            m.wave,
            IF animationId[2] = "bounce"
            THEN gsapSetY(m.y, m.active[animationId].element, 0)
            ELSE m.y)

(***************************************************************************)
(* Documents                                                               *)
(***************************************************************************)
\* Word; bouncing_animation is <<>> or <<Bouncing(...)>>
Word(text, index, st, en, pron, bouncing) ==
    [word |-> text, word_index |-> index, start |-> st, end |-> en,
     pronunciation_start |-> pron, bouncing_animation |-> bouncing]

SyncEvent(id, speaker, preStart, preEnd, words) ==
    [event_id |-> id, speaker_id |-> speaker,
     pre_reading |-> [start |-> preStart, end |-> preEnd],
     active_speech_words |-> words]

\* one entry of layout_settings.caption_boxes
CaptionBox(lineIndex) == [line_index |-> lineIndex]

\* layout_settings with a caption box for the top and the bottom line
LayoutSettings == [caption_boxes |-> <<CaptionBox(0), CaptionBox(1)>>]

\* a document; layout_settings is optional: <<>> when absent
TimingSyncData(events) ==
    [sync_events |-> events, layout_settings |-> <<LayoutSettings>>]

\* the same document without layout_settings
WithoutLayout(data) == [data EXCEPT !.layout_settings = <<>>]

\* width = 800 and height = 450, the defaults of the props
DefaultWidth == 800
DefaultHeight == 450
DefaultSize == [width |-> DefaultWidth, height |-> DefaultHeight]

\* lineGroups with both boxes empty
NoLines == << <<>>, <<>> >>

\* what a commit rendered: the three pieces of state the render depends on
Committed(time, data, playing) ==
    [currentTime |-> time, timingData |-> data, isPlaying |-> playing]

\* the loader after the mount: no error, not loading, no attempt in flight
\* the component is mounted, the ResizeObserver has not notified yet
InitHost ==
    /\ mounted = TRUE
    /\ resizeObserver = [timer |-> <<>>, notified |-> <<>>]

InitLoader ==
    /\ error = <<>>
    /\ isLoading = FALSE
    /\ pendingLoads = [url |-> 0, file |-> 0]
    /\ loadRequests = [inFlight |-> {}, made |-> 0,
                       latest |-> [url |-> "none", kind |-> "none"]]

\* the clock sampler after the mount: paused, nothing registered
InitClock ==
    /\ InitLoader
    /\ isPlaying = FALSE
    /\ committed = Committed(0, <<>>, FALSE)
    /\ vfcPending = FALSE
    /\ rafPending = FALSE
    /\ hasRVFC = TRUE
    /\ orphanCallbacks = [vfc |-> 0, raf |-> 0]
    /\ charRefs = <<>>
    /\ colorRefs = <<>>
    /\ InitHost
    /\ sinceEvent = [event |-> "none", published |-> FALSE]

Times == 0..MaxTime
\* [start, end] windows with start < end
Windows == { <<a, b>> \in Times \X Times : a < b }

Letters == <<"a", "b", "c", "d", "e", "f", "g", "h">>
Text(n) == SubSeq(Letters, 1, n)

(***************************************************************************)
(* CaptionWithIntention: event resolver                                    *)
(***************************************************************************)
\* adjustedTime >= start && adjustedTime <= end
inWindow(adjustedTime, st, en) == adjustedTime >= st /\ adjustedTime <= en

\* timingData.sync_events (no events while timingData is null)
syncEvents(data) == IF data = <<>> THEN <<>> ELSE data[1].sync_events

Indices(seq) == [i \in 1..Len(seq) |-> i]

\* getCurrentEvents(time): events are named by their position in sync_events
getCurrentEvents(data, time, offset) ==
    LET adjustedTime == time - offset
        events       == syncEvents(data)
    IN  [preReading |->
            SelectSeq(Indices(events),
                      LAMBDA e : inWindow(adjustedTime, events[e].pre_reading.start,
                                          events[e].pre_reading.end)),
         activeWords |->
            UNION { { [event |-> e, pos |-> j,
                       word |-> events[e].active_speech_words[j].word,
                       word_index |-> events[e].active_speech_words[j].word_index] :
                      j \in { k \in 1..Len(events[e].active_speech_words) :
                                inWindow(adjustedTime,
                                         events[e].active_speech_words[k].start,
                                         events[e].active_speech_words[k].end) } } :
                    e \in 1..Len(events) }]

\* event.active_speech_words.find(word => active): position of the first
\* active word, 0 when there is none
findActiveWord(event, adjustedTime) ==
    LET hits == { j \in 1..Len(event.active_speech_words) :
                    inWindow(adjustedTime, event.active_speech_words[j].start,
                             event.active_speech_words[j].end) }
    IN  IF hits = {} THEN 0 ELSE CHOOSE j \in hits : \A k \in hits : j <= k

\* mutant: a later event with an equal word_index replaces the current one
lowerIndexOrEqual(wordIndex, lowestWordIndex) == wordIndex <= lowestWordIndex

\* activeWord.word_index < lowestWordIndex
lowerIndex(wordIndex, lowestWordIndex) == wordIndex < lowestWordIndex

\* the loop over currentEvents.preReading; currentEvent = 0 is null and
\* stands for lowestWordIndex = Infinity
RECURSIVE activeWordPass(_, _, _, _, _, _)
activeWordPass(events, preReading, i, adjustedTime, currentEvent, lowestWordIndex) ==
    IF i > Len(preReading) THEN currentEvent
    ELSE LET event == events[preReading[i]]
             j     == findActiveWord(event, adjustedTime)
         IN  IF j # 0 /\ (currentEvent = 0 \/
                          lowerIndex(event.active_speech_words[j].word_index,
                                     lowestWordIndex))
             THEN activeWordPass(events, preReading, i + 1, adjustedTime,
                                 preReading[i],
                                 event.active_speech_words[j].word_index)
             ELSE activeWordPass(events, preReading, i + 1, adjustedTime,
                                 currentEvent, lowestWordIndex)

\* currentEvents.preReading.find(event => pre-reading window contains
\* adjustedTime), 0 when there is none
preReadingFallback(events, preReading, adjustedTime) ==
    LET hits == { i \in 1..Len(preReading) :
                    inWindow(adjustedTime, events[preReading[i]].pre_reading.start,
                             events[preReading[i]].pre_reading.end) }
    IN  IF hits = {} THEN 0
        ELSE preReading[CHOOSE i \in hits : \A k \in hits : i <= k]

\* mutant: the fallback is left out
selectCurrentEventNoFallback(data, currentEvents, time, offset) ==
    activeWordPass(syncEvents(data), currentEvents.preReading, 1, time - offset, 0, 0)

\* the event to display (position in sync_events), 0 when there is none
selectCurrentEvent(data, currentEvents, time, offset) ==
    LET adjustedTime == time - offset
        byWord == activeWordPass(syncEvents(data), currentEvents.preReading, 1,
                                 adjustedTime, 0, 0)
    IN  IF byWord # 0 THEN byWord
        ELSE preReadingFallback(syncEvents(data), currentEvents.preReading,
                                adjustedTime)

\* mutant: events of the primary's own speaker are not filtered out
overlappingEventsAnySpeaker(data, currentEvents, currentEvent, time, offset) ==
    LET events == syncEvents(data)
    IN  SelectSeq(currentEvents.preReading,
                  LAMBDA e : e # currentEvent
                             /\ inWindow(time - offset, events[e].pre_reading.start,
                                         events[e].pre_reading.end))

\* events of another speaker whose pre-reading window contains adjustedTime
overlappingEvents(data, currentEvents, currentEvent, time, offset) ==
    LET events == syncEvents(data)
    IN  SelectSeq(currentEvents.preReading,
                  LAMBDA e : ~(e = currentEvent
                               \/ events[e].speaker_id = events[currentEvent].speaker_id)
                             /\ inWindow(time - offset, events[e].pre_reading.start,
                                         events[e].pre_reading.end))

(***************************************************************************)
(* CaptionWithIntention: segmentation and segment index                    *)
(* Widths are kept in 1/1000 px.                                           *)
(***************************************************************************)
\* mutant: the key leaves the size out
cacheKeyWithoutSize(event, size) == <<event.event_id, 0, 0>>

\* `${event_id}_${actualSize.width}_${actualSize.height}`
cacheKey(event, size) == <<event.event_id, size.width, size.height>>

\* captionBoxMaxWidth without safety_margins and caption_box_style:
\* workAreaWidth = width * 90 / 100, minus 2 * 3.5 % of it for the padding
captionBoxMaxWidth(size) == size.width * 9 * (100 - 7)

\* charWidth = fontSize * 0.6 with fontSize = 5 * (height / 100)
charWidth(size) == 5 * size.height * 6

\* mutant: the width of the word that opens a new segment is not counted
RECURSIVE segmentLoopDropWidth(_, _, _, _, _, _)
segmentLoopDropWidth(words, i, segments, currentSegment, estimatedWidth, size) ==
    IF i > Len(words)
    THEN IF Len(currentSegment) > 0 THEN Append(segments, currentSegment)
         ELSE segments
    ELSE LET wordWidth == (Len(words[i].word) + 1) * charWidth(size)
         IN  IF estimatedWidth + wordWidth <= captionBoxMaxWidth(size)
             THEN segmentLoopDropWidth(words, i + 1, segments,
                              Append(currentSegment, words[i]),
                              estimatedWidth + wordWidth, size)
             ELSE segmentLoopDropWidth(words, i + 1,
                              IF Len(currentSegment) > 0
                              THEN Append(segments, currentSegment)
                              ELSE segments,
                              <<words[i]>>, 0, size)

\* mutant: the word that does not fit is not carried into the new segment
RECURSIVE segmentLoopLoseWord(_, _, _, _, _, _)
segmentLoopLoseWord(words, i, segments, currentSegment, estimatedWidth, size) ==
    IF i > Len(words)
    THEN IF Len(currentSegment) > 0 THEN Append(segments, currentSegment)
         ELSE segments
    ELSE LET wordWidth == (Len(words[i].word) + 1) * charWidth(size)
         IN  IF estimatedWidth + wordWidth <= captionBoxMaxWidth(size)
             THEN segmentLoopLoseWord(words, i + 1, segments,
                              Append(currentSegment, words[i]),
                              estimatedWidth + wordWidth, size)
             ELSE segmentLoopLoseWord(words, i + 1,
                              IF Len(currentSegment) > 0
                              THEN Append(segments, currentSegment)
                              ELSE segments,
                              <<>>, 0, size)

\* the loop over currentEvent.active_speech_words and the final push
RECURSIVE segmentLoop(_, _, _, _, _, _)
segmentLoop(words, i, segments, currentSegment, estimatedWidth, size) ==
    IF i > Len(words)
    THEN IF Len(currentSegment) > 0 THEN Append(segments, currentSegment)
         ELSE segments
    ELSE LET wordWidth == (Len(words[i].word) + 1) * charWidth(size)
         IN  IF estimatedWidth + wordWidth <= captionBoxMaxWidth(size)
             THEN segmentLoop(words, i + 1, segments,
                              Append(currentSegment, words[i]),
                              estimatedWidth + wordWidth, size)
             ELSE segmentLoop(words, i + 1,
                              IF Len(currentSegment) > 0
                              THEN Append(segments, currentSegment)
                              ELSE segments,
                              <<words[i]>>, wordWidth, size)

computeSegments(event, size) ==
    segmentLoop(event.active_speech_words, 1, <<>>, <<>>, 0, size)

\* segment.some(segWord => active)
hasActiveWordIn(words, adjustedTime) ==
    \E j \in 1..Len(words) : inWindow(adjustedTime, words[j].start, words[j].end)

\* mutant: without an active word the index always falls back to 0
segmentIndexResetInGap(event, segments, previousIndex, adjustedTime) ==
    IF ~hasActiveWordIn(event.active_speech_words, adjustedTime)
    THEN 0
    ELSE LET found == { i \in 1..Len(segments) :
                          hasActiveWordIn(segments[i], adjustedTime) }
         IN  IF found # {} THEN (CHOOSE i \in found : \A k \in found : i <= k) - 1
             ELSE previousIndex

\* mutant: the index is not moved to the segment of the active word
segmentIndexStale(event, segments, previousIndex, adjustedTime) ==
    IF Len(segments[1]) > 0 /\ adjustedTime < segments[1][1].start
          /\ ~hasActiveWordIn(event.active_speech_words, adjustedTime)
    THEN 0
    ELSE previousIndex

\* the segment index to display (0-based), for a non-empty segments array
segmentIndex(event, segments, previousIndex, adjustedTime) ==
    IF ~hasActiveWordIn(event.active_speech_words, adjustedTime)
    THEN \* pre-reading or a gap between words
         IF Len(segments[1]) > 0 /\ adjustedTime < segments[1][1].start
         THEN 0
         ELSE previousIndex
    ELSE LET found == { i \in 1..Len(segments) :
                          hasActiveWordIn(segments[i], adjustedTime) }
         IN  IF found # {}
             THEN (CHOOSE i \in found : \A k \in found : i <= k) - 1
             ELSE IF previousIndex < Len(segments)
                  THEN LET previousSegment == segments[previousIndex + 1]
                       IN  IF adjustedTime > previousSegment[Len(previousSegment)].end
                           THEN Min(previousIndex + 1, Len(segments) - 1)
                           ELSE previousIndex
                  ELSE 0

\* segments[index] || []
segmentAt(segments, index) ==
    IF index + 1 <= Len(segments) THEN segments[index + 1] ELSE <<>>

\* currentSegmentIndexRef.current.get(key) || 0
storedIndex(indexMap, key) == IF MapHas(indexMap, key) THEN indexMap[key] ELSE 0

\* One slot's segment handling: cache lookup or partition, index choice,
\* index store.  Gives the caches and the displayed event.
displaySlot(event, e, size, cache, indexMap, adjustedTime) ==
    LET key      == cacheKey(event, size)
        segments == IF MapHas(cache, key) THEN cache[key]
                    ELSE computeSegments(event, size)
        cache2   == IF MapHas(cache, key) THEN cache ELSE MapSet(cache, key, segments)
        index    == IF Len(segments) > 0
                    THEN segmentIndex(event, segments, storedIndex(indexMap, key),
                                      adjustedTime)
                    ELSE 0
    IN  [segmentCache |-> cache2,
         currentSegmentIndex |->
            IF Len(segments) > 0 THEN MapSet(indexMap, key, index) ELSE indexMap,
         displayEvent |->
            [event |-> e, event_id |-> event.event_id,
             speaker_id |-> event.speaker_id,
             active_speech_words |->
                IF Len(segments) > 0 THEN segmentAt(segments, index) ELSE <<>>]]

\* The caption-box block of the render: primary event, its segment, the
\* overlapping event and its segment, lineGroups = <<top, bottom>>.
renderCaptions(data, size, cache, indexMap, time, offset) ==
    LET events        == syncEvents(data)
        currentEvents == getCurrentEvents(data, time, offset)
        currentEvent  == selectCurrentEvent(data, currentEvents, time, offset)
    IN  IF currentEvent = 0
        THEN [segmentCache |-> cache, currentSegmentIndex |-> indexMap,
              lineGroups |-> <<<<>>, <<>>>>]
        ELSE LET primary == displaySlot(events[currentEvent], currentEvent, size,
                                        cache, indexMap, time - offset)
                 others  == overlappingEvents(data, currentEvents, currentEvent,
                                              time, offset)
             IN  IF Len(others) > 0
                 THEN LET top == displaySlot(events[others[1]], others[1], size,
                                             primary.segmentCache,
                                             primary.currentSegmentIndex,
                                             time - offset)
                      IN  [segmentCache |-> top.segmentCache,
                           currentSegmentIndex |-> top.currentSegmentIndex,
                           lineGroups |-> << <<top.displayEvent>>,
                                             <<primary.displayEvent>> >>]
                 ELSE [segmentCache |-> primary.segmentCache,
                       currentSegmentIndex |-> primary.currentSegmentIndex,
                       lineGroups |-> << <<>>, <<primary.displayEvent>> >>]

(***************************************************************************)
(* Colour inputs: &H + AA BB GG RR, with or without ASS's trailing "&"     *)
(***************************************************************************)
HexDigitList ==
    <<"F", "0", "8", "A", "1", "2", "3", "4", "5", "6", "7", "9",
      "B", "C", "D", "E">>

HexDigits == { HexDigitList[i] : i \in 1..Min(NumHexDigits, Len(HexDigitList)) }

HexBytes == { <<a, b>> : a \in HexDigits, b \in HexDigits }

WellFormedColors ==
    { <<"&", "H">> \o aa \o bb \o gg \o rr \o tail :
        aa \in HexBytes, bb \in HexBytes, gg \in HexBytes, rr \in HexBytes,
        tail \in { <<>>, <<"&">> } }

\* the eight digits AABBGGRR of a well-formed colour
DigitsOf(assColor) == SubSeq(assColor, 3, 10)

InitColor ==
    /\ colorIn \in WellFormedColors
    /\ colorOut = <<>>
    /\ colorBack = <<>>
    /\ timingData = <<>>
    /\ activeAnimations = EmptyMap
    /\ waveAnimations = EmptyMap
    /\ elY = EmptyMap
    /\ lastCall = [op |-> "none", t |-> 0]
    /\ waveChar = 0
    /\ currentTime = 0
    /\ syncOffset = 0
    /\ containerSize = DefaultSize
    /\ segmentCache = EmptyMap
    /\ currentSegmentIndex = EmptyMap
    /\ lineGroups = NoLines
    /\ InitClock

\* cssColor = assColorToCss(input)
Convert ==
    /\ colorOut = <<>>
    /\ colorOut' = assColorToCss(colorIn)
    /\ UNCHANGED <<colorIn, colorBack, timingData, loaderVars, managerVars, waveChar, renderVars, clockVars, hostVars>>

\* the result, read as BBGGRR behind the same alpha digits, converted again
ConvertBack ==
    /\ colorOut # <<>>
    /\ colorBack = <<>>
    /\ colorBack' = assColorToCss(<<"&", "H">> \o SubSeq(DigitsOf(colorIn), 1, 2)
                                    \o Tail(colorOut))
    /\ UNCHANGED <<colorIn, colorOut, timingData, loaderVars, managerVars, waveChar, renderVars, clockVars, hostVars>>

NextColor == Convert \/ ConvertBack

SpecColor == InitColor /\ [][NextColor]_vars

\* the byte-reversed trailing six digits of AABBGGRR
Reversed(d) == SubSeq(d, 7, 8) \o SubSeq(d, 5, 6) \o SubSeq(d, 3, 4)

\* C7: every well-formed &HAABBGGRR is mapped to "#RRGGBB", the byte reversal
\* of its trailing six digits, whatever the alpha digits are; &H00FFFFFF
\* gives #FFFFFF and &H00FFFF00 gives #00FFFF.
C7_ByteReversal ==
    /\ colorOut # <<>> => colorOut = <<"#">> \o Reversed(DigitsOf(colorIn))
    /\ assColorToCss(<<"&","H","0","0","F","F","F","F","F","F">>)
          = <<"#","F","F","F","F","F","F">>
    /\ assColorToCss(<<"&","H","0","0","F","F","F","F","0","0">>)
          = <<"#","0","0","F","F","F","F">>

\* C7 witness: a colour with three different bytes and a non-zero alpha has
\* been converted.
C7_Witness ==
    /\ colorOut # <<>>
    /\ SubSeq(DigitsOf(colorIn), 1, 2) # <<"0", "0">>
    /\ SubSeq(DigitsOf(colorIn), 3, 4) # SubSeq(DigitsOf(colorIn), 7, 8)
    /\ SubSeq(DigitsOf(colorIn), 3, 4) # SubSeq(DigitsOf(colorIn), 5, 6)
    /\ SubSeq(DigitsOf(colorIn), 5, 6) # SubSeq(DigitsOf(colorIn), 7, 8)

\* C8: BGR -> RGB -> BGR is the identity: converting the converted colour
\* again gives back the original trailing six digits.
C8_RoundTrip ==
    colorBack # <<>> => Tail(colorBack) = SubSeq(DigitsOf(colorIn), 3, 8)

\* C8 witness: a colour whose three bytes all differ has gone both ways.
C8_Witness ==
    /\ colorBack # <<>>
    /\ SubSeq(DigitsOf(colorIn), 3, 4) # SubSeq(DigitsOf(colorIn), 7, 8)
    /\ SubSeq(DigitsOf(colorIn), 3, 4) # SubSeq(DigitsOf(colorIn), 5, 6)
    /\ SubSeq(DigitsOf(colorIn), 5, 6) # SubSeq(DigitsOf(colorIn), 7, 8)

(***************************************************************************)
(* SpecWave: the manager animating the characters of one word, called the  *)
(* way CharacterWithBounce calls it.                                       *)
(***************************************************************************)
\* per-character timings of a word of n characters: every character gets
\* the window <<cs, ce>>, with or without a peak_time
SameTimings(n, cs, ce, hasPeak, peak) ==
    [c \in 1..n |-> CharTiming(cs, ce, hasPeak, peak)]

WaveTimings(n, st, en) ==
    {<<>>} \cup
    UNION { { SameTimings(n, w[1], w[2], TRUE, pk) : pk \in {w[1], w[2]} } :
            w \in { v \in Windows : st <= v[1] /\ v[2] <= en } }

WaveBouncings(n, st, en) ==
    { Bouncing(FALSE, 0, 2, 0, <<>>) } \cup
    { Bouncing(TRUE, 0, maxPct, cyclesX2, timings) :
        maxPct \in {2, 3}, cyclesX2 \in {0, 1, 2},
        timings \in WaveTimings(n, st, en) }

WaveWords ==
    UNION { { Word(Text(n), 0, w[1], w[2], pron, <<b>>) :
                pron \in {w[1], w[1] + 1}, b \in WaveBouncings(n, w[1], w[2]) } :
            n \in 1..MaxChars, w \in Windows }

WaveDocs == { TimingSyncData(<<SyncEvent("A", "S1", wd.start, wd.end, <<wd>>)>>) :
                wd \in WaveWords }

theWord == timingData[1].sync_events[1].active_speech_words[1]

charTimingOf(wordData, charIndex) ==
    LET b == wordData.bouncing_animation[1]
    IN  IF b.character_timings # <<>> /\ charIndex + 1 <= Len(b.character_timings)
        THEN <<b.character_timings[charIndex + 1]>>
        ELSE <<>>

theManager == Manager(activeAnimations, waveAnimations, elY)

SetManager(m, call) ==
    /\ activeAnimations' = m.active
    /\ waveAnimations' = m.wave
    /\ elY' = m.y
    /\ lastCall' = call

Call(op, t) == [op |-> op, t |-> t]

InitWave ==
    /\ colorIn = <<>> /\ colorOut = <<>> /\ colorBack = <<>>
    /\ timingData \in { <<d>> : d \in WaveDocs }
    /\ activeAnimations = EmptyMap
    /\ waveAnimations = EmptyMap
    /\ elY = EmptyMap
    /\ lastCall = Call("none", 0)
    /\ waveChar \in 0..(Len(theWord.word) - 1)
    /\ currentTime = 0
    /\ syncOffset = 0
    /\ containerSize = DefaultSize
    /\ segmentCache = EmptyMap
    /\ currentSegmentIndex = EmptyMap
    /\ lineGroups = NoLines
    /\ InitClock

\* createBouncingAnimation(...) for character c of the word, then play()
WaveCreate(c) ==
    LET wordData   == theWord
        charTiming == charTimingOf(wordData, c)
        charStart  == IF charTiming # <<>> THEN charTiming[1].start_time
                      ELSE wordData.start
        charEnd    == IF charTiming # <<>> THEN charTiming[1].end_time
                      ELSE wordData.end
        element    == Element(1, "A", 0, c)
        created    == createBouncingAnimation(theManager, element, c,
                          Len(wordData.word), wordData.bouncing_animation[1],
                          DefaultHeight, charStart, charEnd - charStart,
                          wordData.pronunciation_start, charTiming)
    IN  /\ SetManager(IF wordData.bouncing_animation[1].enabled
                      THEN playAnimation(created, bounceId(element))
                      ELSE created,
                      Call("createBouncingAnimation", c))
        /\ UNCHANGED <<colorVars, timingData, loaderVars, waveChar, renderVars, clockVars, hostVars>>

WaveTimelineComplete(id) ==
    /\ MapHas(activeAnimations, id)
    /\ activeAnimations[id].state = "playing"
    /\ SetManager(timelineComplete(theManager, id), Call("onComplete", id[1]))
    /\ UNCHANGED <<colorVars, timingData, loaderVars, waveChar, renderVars, clockVars, hostVars>>

WaveUpdate(t) ==
    /\ SetManager(updateWaveAnimations(theManager, t),
                  Call("updateWaveAnimations", t))
    /\ UNCHANGED <<colorVars, timingData, loaderVars, waveChar, renderVars, clockVars, hostVars>>

WaveClearAll ==
    /\ SetManager(clearAll(theManager), Call("clearAll", 0))
    /\ UNCHANGED <<colorVars, timingData, loaderVars, waveChar, renderVars, clockVars, hostVars>>

NextWave ==
    \/ WaveCreate(waveChar)
    \/ \E id \in DOMAIN activeAnimations : WaveTimelineComplete(id)
    \/ \E t \in 0..(MaxTime + 1) : WaveUpdate(t)
    \/ WaveClearAll

SpecWave == InitWave /\ [][NextWave]_vars

\* transform y of an element (0 when it carries no transform)
Y(element) == IF element \in DOMAIN elY THEN elY[element] ELSE 0

\* C1: after clearAll(), a following updateWaveAnimations(t) changes no
\* character's vertical offset, for any t: every handle was discarded.
C1_ClearAllStopsWaves ==
    [][lastCall.op = "clearAll" /\ lastCall'.op = "updateWaveAnimations"
          => elY' = elY]_vars

\* C1, the state it speaks of: right after clearAll() the manager holds no
\* timeline handle and no wave record.
C1_AllHandlesDiscarded ==
    lastCall.op = "clearAll" =>
        DOMAIN activeAnimations = {} /\ DOMAIN waveAnimations = {}

\* elapsed time of a wave record at the time of the last update
ElapsedAtLastCall(data) == lastCall.t - animStartTime(data)

\* C9 as stated: the offset computed by updateWaveAnimations is 0 at p = 0
\* and at p = 1, for any waveCycles, bounceRange, phase and peak time.
C9_ZeroAtBothEnds ==
    lastCall.op = "updateWaveAnimations" =>
        \A id \in DOMAIN waveAnimations :
            LET data == waveAnimations[id]
            IN  ElapsedAtLastCall(data) \in {0, animDuration(data)}
                    => Y(data.element) = 0

\* C9 amended: the offset is 0 at p = 1; at p = 0 it is
\* -bounceRange * |sin(charPhase + phaseShift)|, the undamped wave.
C9_ZeroAtEnd ==
    lastCall.op = "updateWaveAnimations" =>
        \A id \in DOMAIN waveAnimations :
            LET data == waveAnimations[id]
            IN  /\ ElapsedAtLastCall(data) = animDuration(data)
                      => Y(data.element) = 0
                /\ ElapsedAtLastCall(data) = 0
                      => Y(data.element) =
                            0 - data.bounceRange
                                  * AbsSin(data.charPhase + peakPhaseShift(data))

\* C9 witness: an update at p = 1 of a record with a positive bounce range
\* whose sine term is not zero there, so that the damping decides.
C9_Witness ==
    /\ lastCall.op = "updateWaveAnimations"
    /\ \E id \in DOMAIN waveAnimations :
          LET data == waveAnimations[id]
          IN  /\ ElapsedAtLastCall(data) = animDuration(data)
              /\ data.bounceRange > 0
              /\ data.charPhase > 0
              /\ AbsSin(data.waveCyclesX2 * 12 + data.charPhase
                          + peakPhaseShift(data)) > 0
              /\ Y(data.element) = 0

(***************************************************************************)
(* SpecResolve: one render of a document at a sample time.  Documents have *)
(* up to MaxEvents events of one word or of two words that touch, with     *)
(* pre-reading and word windows over the ticks 0..2.                       *)
(***************************************************************************)
ResolveWindows == { <<a, b>> \in (0..2) \X (0..2) : a < b }

Plain == <<Bouncing(FALSE, 0, 0, 0, <<>>)>>

ResolveWordLists ==
    { <<Word(Text(1), 0, w[1], w[2], w[1], Plain)>> : w \in ResolveWindows }
    \cup { <<Word(Text(1), 0, 0, 1, 0, Plain), Word(Text(2), 1, 1, 2, 1, Plain)>> }

ResolveEvents(id, speakers) ==
    { SyncEvent(id, sp, pre[1], pre[2], words) :
        sp \in speakers, pre \in ResolveWindows, words \in ResolveWordLists }

EventIds == <<"A", "B", "C", "D", "E">>
Speakers == {"S1", "S2"}

RECURSIVE ResolveEventLists(_)
ResolveEventLists(n) ==
    IF n = 1 THEN { <<e>> : e \in ResolveEvents(EventIds[1], {"S1"}) }
    ELSE { Append(l, e) : l \in ResolveEventLists(n - 1),
                          e \in ResolveEvents(EventIds[n], Speakers) }

\* the document of the 'Hi' example, in ticks of 0.1 s: one event with the
\* word 'Hi' spoken in [0.0, 0.5]; its pre-reading window opens at preStart
HiDoc(preStart) ==
    TimingSyncData(<<SyncEvent("A", "S1", preStart, 5,
                               <<Word(<<"H", "i">>, 0, 0, 5, 0, Plain)>>)>>)

ResolveDocs ==
    UNION { { TimingSyncData(l) : l \in ResolveEventLists(n) } : n \in 1..MaxEvents }
    \cup { HiDoc(0), HiDoc(0 - 5) }

ResolveOffsets == {0, 1, 5}
ResolveTimes == 0..3

InitResolve ==
    /\ colorIn = <<>> /\ colorOut = <<>> /\ colorBack = <<>>
    /\ timingData \in { <<d>> : d \in ResolveDocs }
    /\ activeAnimations = EmptyMap
    /\ waveAnimations = EmptyMap
    /\ elY = EmptyMap
    /\ lastCall = Call("none", 0)
    /\ waveChar = 0
    /\ currentTime = 0
    /\ syncOffset \in ResolveOffsets
    /\ containerSize = DefaultSize
    /\ segmentCache = EmptyMap
    /\ currentSegmentIndex = EmptyMap
    /\ lineGroups = NoLines
    /\ InitClock

\* setCurrentTime(t) and the render that follows
ResolveAt(t) ==
    LET r == renderCaptions(timingData, containerSize, segmentCache,
                            currentSegmentIndex, t, syncOffset)
    IN  /\ lastCall.op = "none"
        /\ currentTime' = t
        /\ segmentCache' = r.segmentCache
        /\ currentSegmentIndex' = r.currentSegmentIndex
        /\ lineGroups' = r.lineGroups
        /\ lastCall' = Call("render", t)
        /\ UNCHANGED <<colorVars, timingData, loaderVars, activeAnimations, waveAnimations,
                       elY, waveChar, syncOffset, containerSize, clockVars, hostVars>>

NextResolve == \E t \in ResolveTimes : ResolveAt(t)

SpecResolve == InitResolve /\ [][NextResolve]_vars

(***************************************************************************)
(* Claims on the event resolver, under SpecResolve                         *)
(***************************************************************************)
rendered == lastCall.op = "render"

adjusted == currentTime - syncOffset

\* the event in the bottom (primary) box, 0 when the box is empty
primaryEvent == IF lineGroups[2] = <<>> THEN 0 ELSE lineGroups[2][1].event

\* the events that have a word active at the adjusted time
eventsWithActiveWord ==
    { e \in 1..Len(syncEvents(timingData)) :
        findActiveWord(syncEvents(timingData)[e], adjusted) # 0 }

\* word_index of the first active word of event e
activeIndex(e) ==
    LET event == syncEvents(timingData)[e]
    IN  event.active_speech_words[findActiveWord(event, adjusted)].word_index

\* the events whose pre-reading window contains the adjusted time
eventsInPreReading ==
    { e \in 1..Len(syncEvents(timingData)) :
        inWindow(adjusted, syncEvents(timingData)[e].pre_reading.start,
                 syncEvents(timingData)[e].pre_reading.end) }

windowsOverlap(e1, e2) ==
    LET a == syncEvents(timingData)[e1].pre_reading
        b == syncEvents(timingData)[e2].pre_reading
    IN  Max(a.start, b.start) <= Min(a.end, b.end)

\* C3: after a render at most two events are displayed, and of two events
\* of different speakers with overlapping pre-reading windows that both
\* have an active word, the one with the higher word_index is never the
\* primary; the one with the lower word_index is the primary when no other
\* event has an active word.
C3_LowerIndexPrimary ==
    rendered =>
        /\ Len(lineGroups[1]) + Len(lineGroups[2]) <= 2
        /\ \A e1, e2 \in eventsWithActiveWord :
              ( /\ syncEvents(timingData)[e1].speaker_id
                     # syncEvents(timingData)[e2].speaker_id
                /\ windowsOverlap(e1, e2)
                /\ activeIndex(e1) < activeIndex(e2) )
              => /\ primaryEvent # e2
                 /\ (eventsWithActiveWord = {e1, e2} => primaryEvent = e1)

\* With both events among the pre-reading candidates the lower word_index
\* does win (the part of C3 that holds).
C3_AmongCandidates ==
    rendered =>
        \A e1, e2 \in eventsWithActiveWord \cap eventsInPreReading :
            ( /\ syncEvents(timingData)[e1].speaker_id
                   # syncEvents(timingData)[e2].speaker_id
              /\ activeIndex(e1) < activeIndex(e2) )
            => primaryEvent # e2


\* C4: when some event has an active word, the primary event has an active
\* word and its word_index is the lowest among the active words of all
\* events.
C4_LowestIndexAmongAll ==
    (rendered /\ eventsWithActiveWord # {}) =>
        /\ primaryEvent \in eventsWithActiveWord
        /\ \A e \in eventsWithActiveWord :
              activeIndex(primaryEvent) <= activeIndex(e)

\* The part of C4 that holds: among the pre-reading candidates the lowest
\* word_index wins.
C4_AmongCandidates ==
    (rendered /\ eventsWithActiveWord \cap eventsInPreReading # {}) =>
        /\ primaryEvent \in eventsWithActiveWord \cap eventsInPreReading
        /\ \A e \in eventsWithActiveWord \cap eventsInPreReading :
              activeIndex(primaryEvent) <= activeIndex(e)

\* C5: when no event has an active word, the primary event is one whose
\* pre-reading window contains the adjusted time, and there is none exactly
\* when no window contains it; in the 'Hi' document t = 0.3 with offset 0
\* selects the event with 'Hi' active, and with offset 0.5 no word is active.
C5_PreReadingFallback ==
    /\ (rendered /\ eventsWithActiveWord = {}) =>
          /\ primaryEvent # 0 => primaryEvent \in eventsInPreReading
          /\ primaryEvent = 0 <=> eventsInPreReading = {}
    /\ (rendered /\ timingData \in {<<HiDoc(0)>>, <<HiDoc(0 - 5)>>}
                 /\ currentTime = 3) =>
          /\ syncOffset = 0 =>
                /\ primaryEvent = 1
                /\ \E w \in getCurrentEvents(timingData, currentTime, syncOffset).activeWords :
                      w.word = <<"H", "i">>
          /\ syncOffset = 5 =>
                /\ getCurrentEvents(timingData, currentTime, syncOffset).activeWords = {}
                /\ primaryEvent = 0 <=> timingData = <<HiDoc(0)>>

\* the 'Hi' document sampled at t = 0.3 with offset 0.5: no word is active
\* and the event is selected by its pre-reading window
C5_Witness ==
    /\ rendered
    /\ timingData = <<HiDoc(0 - 5)>>
    /\ currentTime = 3
    /\ syncOffset = 5
    /\ eventsWithActiveWord = {}
    /\ primaryEvent = 1

(***************************************************************************)
(* CaptionWithIntention: word rendering and CharacterWithBounce            *)
(***************************************************************************)
\* the flags the word map computes for one displayed word (legacy words)
wordDecision(wordData, currentEvents, time, offset) ==
    LET adjustedTimeForWord == time - offset
        isCurrentlyActive ==
            \E w \in currentEvents.activeWords :
                w.word = wordData.word /\ w.word_index = wordData.word_index
    IN  [word_index |-> wordData.word_index,
         isCurrentlyActive |-> isCurrentlyActive,
         hasBeenPronounced |-> adjustedTimeForWord >= wordData.start,
         isCurrentlyBeingPronounced |->
            inWindow(adjustedTimeForWord, wordData.start, wordData.end),
         shouldAnimate |->
            /\ isCurrentlyActive
            /\ wordData.bouncing_animation # <<>>
            /\ time >= wordData.start
            /\ time <= wordData.end]

wordDecisions(groups, currentEvents, time, offset) ==
    [line \in 1..2 |->
        IF groups[line] = <<>> THEN <<>>
        ELSE [j \in 1..Len(groups[line][1].active_speech_words) |->
                wordDecision(groups[line][1].active_speech_words[j],
                             currentEvents, time, offset)]]

\* a property of a JSON object, <<>> when the object does not have it
opt(rec, f) == IF f \in DOMAIN rec THEN rec[f] ELSE <<>>

\* if (wordData.animation_type && wordData.animation_config)
usesUnified(wordData) ==
    /\ opt(wordData, "animation_type") # <<>>
    /\ opt(wordData, "animation_config") # <<>>

\* wordData.special_effects?.loud_voice || wordData.special_effects?.whisper_voice
hasSpecialEffect(wordData) ==
    /\ opt(wordData, "special_effects") # <<>>
    /\ \/ wordData.special_effects[1].loud_voice
       \/ wordData.special_effects[1].whisper_voice

\* the return statement of the word map that renders the word:
\* "unified-chars" (1005-1070), "unified-word" (1072-1163),
\* "legacy-word" (1187-1229) or "legacy-chars" (1232-1286)
wordBranch(wordData, time, offset) ==
    IF usesUnified(wordData)
    THEN IF wordData.animation_type[1] = "bouncing" THEN "unified-chars"
         ELSE "unified-word"
    ELSE IF inWindow(time - offset, wordData.start, wordData.end)
            /\ hasSpecialEffect(wordData)
         THEN "legacy-word"
         ELSE "legacy-chars"

\* the wordData prop handed to CharacterWithBounce: the word itself, or for a
\* unified bouncing word {...wordData, bouncing_animation: bouncingConfig}.
\* (wave_height_range is given and not 0 in the documents drawn; a missing
\* character_timings is <<>>.)
charWordData(wordData) ==
    IF usesUnified(wordData)
    THEN LET config == wordData.animation_config[1]
             legacy == IF wordData.bouncing_animation # <<>>
                       THEN wordData.bouncing_animation[1].character_timings
                       ELSE <<>>
         IN  [wordData EXCEPT !.bouncing_animation =
                <<Bouncing(TRUE, config.wave_height_range.min,
                           config.wave_height_range.max, 0,
                           IF config.character_timings # <<>>
                           THEN config.character_timings ELSE legacy)>>]
    ELSE wordData

\* the CharacterWithBounce components of one displayed word: none before the
\* word has been pronounced or when the word is rendered as one span, else
\* one per character
charComponents(line, displayEvent, j, time, offset) ==
    LET wordData == displayEvent.active_speech_words[j]
    IN  IF /\ time - offset >= wordData.start
           /\ wordBranch(wordData, time, offset) \in {"unified-chars", "legacy-chars"}
        THEN [c \in 1..Len(wordData.word) |->
                [element |-> Element(line - 1, displayEvent.event_id, j - 1, c - 1),
                 charIndex |-> c - 1,
                 wordData |-> charWordData(wordData)]]
        ELSE <<>>

RECURSIVE wordComponents(_, _, _, _, _)
wordComponents(line, displayEvent, j, time, offset) ==
    IF j > Len(displayEvent.active_speech_words) THEN <<>>
    ELSE charComponents(line, displayEvent, j, time, offset)
            \o wordComponents(line, displayEvent, j + 1, time, offset)

\* timingData?.layout_settings?.caption_boxes?.[lineIndex], lineIndex = 0, 1
\* (data is the timingData state: <<>> or <<document>>)
captionBoxOf(data, lineIndex) ==
    IF data = <<>> THEN <<>>
    ELSE IF data[1].layout_settings = <<>> THEN <<>>
    ELSE IF lineIndex + 1 > Len(data[1].layout_settings[1].caption_boxes) THEN <<>>
    ELSE <<data[1].layout_settings[1].caption_boxes[lineIndex + 1]>>

\* lineGroups.map(...): what each line renders, <<>> where the callback
\* returns null (no events on the line, or no caption box for it)
captionBoxes(data, groups) ==
    [i \in 1..2 |-> IF groups[i] = <<>> THEN <<>>
                    ELSE IF captionBoxOf(data, i - 1) = <<>> THEN <<>>
                    ELSE groups[i]]

\* the mounted CharacterWithBounce components, in tree order; groups are the
\* lines that render a caption box
mountedComponents(groups, time, offset) ==
    (IF groups[1] = <<>> THEN <<>>
     ELSE wordComponents(1, groups[1][1], 1, time, offset))
    \o (IF groups[2] = <<>> THEN <<>>
        ELSE wordComponents(2, groups[2][1], 1, time, offset))

\* shouldStartAnimation of a component
shouldStartAnimation(comp, time, offset) ==
    LET wordData   == comp.wordData
        charTiming == IF wordData.bouncing_animation = <<>> THEN <<>>
                      ELSE charTimingOf(wordData, comp.charIndex)
        charStartTime == IF charTiming # <<>> THEN charTiming[1].start_time
                         ELSE wordData.start
        charEndTime   == IF charTiming # <<>> THEN charTiming[1].end_time
                         ELSE wordData.end
    IN  inWindow(time - offset, charStartTime, charEndTime)

\* the bounce effect of one component; st = [m |-> manager, refs |-> the
\* lastAnimationTimeRef of every mounted component].  gsap.killTweensOf
\* touches neither map of the manager.
bounceEffect(st, comp, time, offset, screenHeight) ==
    LET wordData == comp.wordData
    IN  IF wordData.bouncing_animation = <<>>
           \/ ~wordData.bouncing_animation[1].enabled
        THEN st
        ELSE LET charTiming == charTimingOf(wordData, comp.charIndex)
                 charStartTime == IF charTiming # <<>> THEN charTiming[1].start_time
                                  ELSE wordData.start
                 charEndTime   == IF charTiming # <<>> THEN charTiming[1].end_time
                                  ELSE wordData.end
             IN  IF ~shouldStartAnimation(comp, time, offset)
                 THEN [m |-> Manager(st.m.active, st.m.wave,
                                     gsapSetY(st.m.y, comp.element, 0)),
                       refs |-> st.refs]
                 ELSE IF st.refs[comp.element] # charStartTime
                      THEN [m |-> playAnimation(
                                    createBouncingAnimation(st.m, comp.element,
                                        comp.charIndex, Len(wordData.word),
                                        wordData.bouncing_animation[1],
                                        screenHeight, charStartTime,
                                        charEndTime - charStartTime,
                                        wordData.pronunciation_start, charTiming),
                                    bounceId(comp.element)),
                            refs |-> MapSet(st.refs, comp.element, charStartTime)]
                      ELSE st

RECURSIVE runEffects(_, _, _, _, _, _)
runEffects(st, comps, i, time, offset, screenHeight) ==
    IF i > Len(comps) THEN st
    ELSE runEffects(bounceEffect(st, comps[i], time, offset, screenHeight),
                    comps, i + 1, time, offset, screenHeight)

\* `${element.dataset.charIndex}-color`
colorId(element) == <<element.charIndex, "color">>

\* charTiming?.peak_time ?? (wordData.pronunciation_start || wordData.start);
\* || takes the right operand when the left one is undefined or 0
colorTransitionTime(wordData, charIndex) ==
    LET charTiming == IF wordData.bouncing_animation = <<>> THEN <<>>
                      ELSE charTimingOf(wordData, charIndex)
    IN  IF charTiming # <<>> /\ charTiming[1].hasPeak
        THEN charTiming[1].peak_time
        ELSE IF "pronunciation_start" \in DOMAIN wordData
                /\ wordData.pronunciation_start # 0
             THEN wordData.pronunciation_start
             ELSE wordData.start

\* createColorTransition: a timeline under the id of the character index,
\* replacing (and killing) the one stored there; the colour it tweens is
\* not part of the state
createColorTransition(m, element) ==
    Manager(MapSet(m.active, colorId(element), [state |-> "paused"]),
            m.wave, m.y)

\* the ref of a component that has just been mounted
FreshColorRef == [last |-> 0 - 1, word_index |-> 0 - 1, fires |-> 0]

\* the ref of the component when it renders wordData: the count starts
\* again when the component is given another word
colorRefFor(ref, wordData) ==
    IF ref.word_index = wordData.word_index THEN ref
    ELSE [ref EXCEPT !.word_index = wordData.word_index, !.fires = 0]

\* mutant: the colour effect without its lastColorTransitionRef guard
colorEffectUnguarded(st, comp, time, offset) ==
    LET ref == colorRefFor(st.refs[comp.element], comp.wordData)
        transitionTime == colorTransitionTime(comp.wordData, comp.charIndex)
    IN  IF time - offset >= transitionTime
        THEN [m |-> playAnimation(createColorTransition(st.m, comp.element),
                                  colorId(comp.element)),
              refs |-> MapSet(st.refs, comp.element,
                              [ref EXCEPT !.last = transitionTime,
                                          !.fires = @ + 1])]
        ELSE [m |-> st.m, refs |-> MapSet(st.refs, comp.element, ref)]

\* the colour effect of one component; st = [m |-> manager, refs |-> the
\* lastColorTransitionRef of every mounted component]
colorEffect(st, comp, time, offset) ==
    LET ref == colorRefFor(st.refs[comp.element], comp.wordData)
        transitionTime == colorTransitionTime(comp.wordData, comp.charIndex)
        shouldTransitionColor == time - offset >= transitionTime
    IN  IF shouldTransitionColor /\ ref.last # transitionTime
        THEN [m |-> playAnimation(createColorTransition(st.m, comp.element),
                                  colorId(comp.element)),
              refs |-> MapSet(st.refs, comp.element,
                              [ref EXCEPT !.last = transitionTime,
                                          !.fires = @ + 1])]
        ELSE [m |-> st.m, refs |-> MapSet(st.refs, comp.element, ref)]

RECURSIVE runColorEffects(_, _, _, _, _)
runColorEffects(st, comps, i, time, offset) ==
    IF i > Len(comps) THEN st
    ELSE runColorEffects(colorEffect(st, comps[i], time, offset),
                         comps, i + 1, time, offset)

\* updateVideoFrame / fallbackUpdate: the wave update of a sample
sampleWave(m, videoCurrentTime, offset) == updateWaveAnimations(m, videoCurrentTime)

(***************************************************************************)
(* SpecPlayer: the mounted player.  The video element fires play, pause    *)
(* and timeupdate events and runs the registered frame callbacks; React    *)
(* commits a render after a state change.  lastCall names the call; its   *)
(* argument is currentTime.                                                *)
(***************************************************************************)
PlayerTimes == 0..(2 * MaxTime)

Bounce == Bouncing(TRUE, 0, 2, 0, <<>>)

\* one sentence of three words with silence between them
PlayerDocOne ==
    TimingSyncData(<<
        SyncEvent("A", "S1", 0, 2 * MaxTime,
                  << Word(Text(2), 0, 0, 1, 0, <<Bounce>>),
                     Word(Text(2), 1, MaxTime, MaxTime + 1, MaxTime, <<>>),
                     Word(Text(2), 2, 2 * MaxTime - 1, 2 * MaxTime,
                          2 * MaxTime - 1, <<>>) >>) >>)

\* two speakers talking over each other
PlayerDocTwo ==
    TimingSyncData(<<
        SyncEvent("A", "S1", 0, MaxTime, <<Word(Text(1), 0, 0, 2, 0, <<Bounce>>)>>),
        SyncEvent("B", "S2", 1, MaxTime, <<Word(Text(1), 0, 1, 2, 1, <<Bounce>>)>>) >>)

PlayerDocs == {PlayerDocOne, PlayerDocTwo}

\* a container two words of two characters wide
NarrowSize == [width |-> 100, height |-> DefaultHeight]

\* the mounted player, paused, no document loaded
InitClockSampler ==
    /\ colorIn = <<>> /\ colorOut = <<>> /\ colorBack = <<>>
    /\ InitLoader
    /\ timingData = <<>>
    /\ activeAnimations = EmptyMap
    /\ waveAnimations = EmptyMap
    /\ elY = EmptyMap
    /\ lastCall = Call("none", 0)
    /\ waveChar = 0
    /\ currentTime = 0
    /\ syncOffset = 0
    /\ containerSize = DefaultSize
    /\ segmentCache = EmptyMap
    /\ currentSegmentIndex = EmptyMap
    /\ lineGroups = NoLines
    /\ isPlaying = FALSE
    /\ committed = Committed(0, <<>>, FALSE)
    /\ vfcPending = FALSE
    /\ rafPending = FALSE
    /\ hasRVFC \in BOOLEAN
    /\ orphanCallbacks = [vfc |-> 0, raf |-> 0]
    /\ charRefs = <<>>
    /\ colorRefs = <<>>
    /\ InitHost
    /\ sinceEvent = [event |-> "none", published |-> FALSE]

\* the mounted player during playback (the state SpecClockSampler reaches by
\* handlePlay and Commit), no document loaded yet
InitPlayer ==
    /\ colorIn = <<>> /\ colorOut = <<>> /\ colorBack = <<>>
    /\ InitLoader
    /\ timingData = <<>>
    /\ activeAnimations = EmptyMap
    /\ waveAnimations = EmptyMap
    /\ elY = EmptyMap
    /\ lastCall = Call("none", 0)
    /\ waveChar = 0
    /\ currentTime = 0
    /\ syncOffset \in {0, 1}
    /\ containerSize = NarrowSize
    /\ segmentCache = EmptyMap
    /\ currentSegmentIndex = EmptyMap
    /\ lineGroups = NoLines
    /\ isPlaying = TRUE
    /\ committed = Committed(0, <<>>, TRUE)
    /\ vfcPending = TRUE
    /\ rafPending = FALSE
    /\ hasRVFC = TRUE
    /\ orphanCallbacks = [vfc |-> 0, raf |-> 0]
    /\ charRefs = <<>>
    /\ colorRefs = <<>>
    /\ InitHost
    /\ sinceEvent = [event |-> "play", published |-> FALSE]

\* setCurrentTime(t): a value that differs from the state is a publication;
\* publications are recorded after a pause event
Publish(t) ==
    /\ currentTime' = t
    /\ sinceEvent' = [sinceEvent EXCEPT
                        !.published = sinceEvent.event = "pause"
                                      /\ (@ \/ t # currentTime)]

\* loadTimingSync / handleTimingSyncFile: setTimingData(data)
LoadTimingSync(data) ==
    /\ timingData = <<>>
    /\ timingData' = <<data>>
    /\ UNCHANGED <<colorVars, loaderVars, managerVars, waveChar, renderVars,
                   clockVars, hostVars>>

handlePlay ==
    /\ ~isPlaying
    /\ isPlaying' = TRUE
    /\ SetManager(resumeAll(theManager), Call("resumeAll", 0))
    /\ sinceEvent' = [event |-> "play", published |-> FALSE]
    /\ UNCHANGED <<colorVars, timingData, loaderVars, waveChar, renderVars, committed,
                   vfcPending, rafPending, hasRVFC, orphanCallbacks, charRefs,
                   colorRefs, hostVars>>

handlePause ==
    /\ isPlaying
    /\ isPlaying' = FALSE
    /\ SetManager(pauseAll(theManager), Call("pauseAll", 0))
    /\ sinceEvent' = [event |-> "pause", published |-> FALSE]
    /\ UNCHANGED <<colorVars, timingData, loaderVars, waveChar, renderVars, committed,
                   vfcPending, rafPending, hasRVFC, orphanCallbacks, charRefs,
                   colorRefs, hostVars>>

\* the timeupdate listener; t is video.currentTime
handleTimeUpdate(t) ==
    /\ Publish(t)
    /\ lastCall' = Call("setCurrentTime", 0)
    /\ UNCHANGED <<colorVars, timingData, loaderVars, activeAnimations, waveAnimations, elY,
                   waveChar, syncOffset, containerSize, segmentCache,
                   currentSegmentIndex, lineGroups, isPlaying, committed,
                   vfcPending, rafPending, hasRVFC, orphanCallbacks, charRefs,
                   colorRefs, hostVars>>

\* mutant: cancelling has no effect
cancelCallbackNoop(pending) == pending

\* cancelVideoFrameCallback / cancelAnimationFrame of the id a ref holds:
\* the callback the ref names is registered no more
cancelCallback(pending) == FALSE

\* a ref is overwritten with the id of a new request: a callback it named
\* before stays registered
orphansAfterRequest(pending, orphans) == orphans + (IF pending THEN 1 ELSE 0)

\* a registered video frame callback runs (the one videoFrameCallbackRef
\* names or another one).  It was registered by a render with
\* isPlaying = true, so it registers itself again.
updateVideoFrame(t) ==
    /\ \E fromRef \in BOOLEAN :
          /\ IF fromRef THEN vfcPending ELSE orphanCallbacks.vfc > 0
          /\ orphanCallbacks' =
                [orphanCallbacks EXCEPT
                    !.vfc = IF fromRef THEN @
                            ELSE orphansAfterRequest(vfcPending, @ - 1)]
    /\ Publish(t)
    /\ SetManager(sampleWave(theManager, t, syncOffset),
                  Call("updateWaveAnimations", 0))
    /\ vfcPending' = TRUE
    /\ UNCHANGED <<colorVars, timingData, loaderVars, waveChar, syncOffset, containerSize,
                   segmentCache, currentSegmentIndex, lineGroups, isPlaying,
                   committed, rafPending, hasRVFC, charRefs, colorRefs, hostVars>>

\* a registered animation frame callback runs; its isPlaying is true
fallbackUpdate(t) ==
    /\ \E fromRef \in BOOLEAN :
          /\ IF fromRef THEN rafPending ELSE orphanCallbacks.raf > 0
          /\ orphanCallbacks' =
                [orphanCallbacks EXCEPT
                    !.raf = IF fromRef THEN @
                            ELSE orphansAfterRequest(rafPending, @ - 1)]
    /\ Publish(t)
    /\ SetManager(sampleWave(theManager, t, syncOffset),
                  Call("updateWaveAnimations", 0))
    /\ rafPending' = TRUE
    /\ UNCHANGED <<colorVars, timingData, loaderVars, waveChar, syncOffset, containerSize,
                   segmentCache, currentSegmentIndex, lineGroups, isPlaying,
                   committed, vfcPending, hasRVFC, charRefs, colorRefs, hostVars>>

\* the frame callback effect: cleanup of the previous run, then the body
frameCallbackEffect(playing, rvfc, vfc, raf, orphans) ==
    LET raf1 == cancelCallback(raf)
        vfc1 == cancelCallback(vfc)
    IN  IF playing /\ rvfc
        THEN [vfc |-> TRUE, raf |-> raf1,
              orphans |-> [orphans EXCEPT !.vfc = orphansAfterRequest(vfc1, @)]]
        ELSE IF playing
        THEN [vfc |-> vfc1, raf |-> TRUE,
              orphans |-> [orphans EXCEPT !.raf = orphansAfterRequest(raf1, @)]]
        ELSE [vfc |-> cancelCallback(vfc1), raf |-> cancelCallback(raf1),
              orphans |-> orphans]

\* React commits: the render body, the bounce and colour effects of the
\* mounted characters when currentTime or the document changed, and the frame
\* callback effect (cleanup, then body) when isPlaying changed. Each
\* intermediate value of the commit (render result, mounted components, the
\* manager after each group of effects) is bound once and used by the next.
Commit ==
    /\ committed # Committed(currentTime, timingData, isPlaying)
    /\ \E r \in { renderCaptions(timingData, containerSize, segmentCache,
                                  currentSegmentIndex, currentTime, syncOffset) } :
       \E comps \in { mountedComponents(captionBoxes(timingData, r.lineGroups),
                                        currentTime, syncOffset) } :
       \E changed \in { committed.currentTime # currentTime
                         \/ committed.timingData # timingData } :
       \E keys \in { { comps[i].element : i \in 1..Len(comps) } } :
       \E st \in { IF changed
                    THEN runEffects([m |-> theManager,
                                     refs |-> [k \in keys |->
                                                 IF k \in DOMAIN charRefs
                                                 THEN charRefs[k] ELSE 0 - 1]],
                                    comps, 1, currentTime, syncOffset,
                                    containerSize.height)
                    ELSE [m |-> theManager,
                          refs |-> [k \in keys |->
                                      IF k \in DOMAIN charRefs
                                      THEN charRefs[k] ELSE 0 - 1]] } :
       \E cst \in { IF changed
                     THEN runColorEffects([m |-> st.m,
                                           refs |-> [k \in keys |->
                                                       IF k \in DOMAIN colorRefs
                                                       THEN colorRefs[k]
                                                       ELSE FreshColorRef]],
                                          comps, 1, currentTime, syncOffset)
                     ELSE [m |-> st.m,
                           refs |-> [k \in keys |->
                                       IF k \in DOMAIN colorRefs
                                       THEN colorRefs[k] ELSE FreshColorRef]] } :
           /\ segmentCache' = r.segmentCache
           /\ currentSegmentIndex' = r.currentSegmentIndex
           /\ lineGroups' = r.lineGroups
           /\ SetManager(cst.m, Call("render", 0))
           /\ charRefs' = st.refs
           /\ colorRefs' = cst.refs
    /\ LET e == IF committed.isPlaying # isPlaying
                THEN frameCallbackEffect(isPlaying, hasRVFC, vfcPending,
                                         rafPending, orphanCallbacks)
                ELSE [vfc |-> vfcPending, raf |-> rafPending,
                      orphans |-> orphanCallbacks]
       IN  /\ vfcPending' = e.vfc
           /\ rafPending' = e.raf
           /\ orphanCallbacks' = e.orphans
    /\ committed' = Committed(currentTime, timingData, isPlaying)
    /\ UNCHANGED <<colorVars, timingData, loaderVars, waveChar, currentTime, syncOffset,
                   containerSize, isPlaying, hasRVFC, sinceEvent, hostVars>>

NextPlayer ==
    \/ \E data \in PlayerDocs : LoadTimingSync(data)
    \/ \E t \in PlayerTimes : handleTimeUpdate(t)
    \/ \E t \in PlayerTimes : updateVideoFrame(t)
    \/ Commit
    \/ \E id \in DOMAIN activeAnimations : WaveTimelineComplete(id)

SpecPlayer == InitPlayer /\ [][NextPlayer]_vars

\* the same player when the video time only moves forward (no seek back)
NextPlayerForward ==
    \/ \E data \in PlayerDocs : LoadTimingSync(data)
    \/ \E t \in PlayerTimes : t > currentTime /\ handleTimeUpdate(t)
    \/ \E t \in PlayerTimes : t > currentTime /\ updateVideoFrame(t)
    \/ Commit
    \/ \E id \in DOMAIN activeAnimations : WaveTimelineComplete(id)

SpecPlayerForward == InitPlayer /\ [][NextPlayerForward]_vars

(***************************************************************************)
(* SpecClockSampler: the clock sampler from the mount on, with either time *)
(* source, before a document is loaded.                                    *)
(***************************************************************************)
NextClockSampler ==
    \/ handlePlay
    \/ handlePause
    \/ \E t \in Times : handleTimeUpdate(t)
    \/ \E t \in Times : updateVideoFrame(t)
    \/ \E t \in Times : fallbackUpdate(t)
    \/ Commit

SpecClockSampler == InitClockSampler /\ [][NextClockSampler]_vars

(***************************************************************************)
(* Claims on the mounted player                                            *)
(***************************************************************************)
\* C2: between two renders of the same document with increasing currentTime
\* the index stored for a cache key (event_id and viewport size) does not
\* decrease.
C2_SegmentIndexMonotone ==
    [][ ( /\ committed.timingData # <<>>
          /\ committed'.timingData = committed.timingData
          /\ committed'.currentTime > committed.currentTime )
        => \A key \in (DOMAIN currentSegmentIndex) \cap (DOMAIN currentSegmentIndex') :
              currentSegmentIndex'[key] >= currentSegmentIndex[key] ]_vars

\* what the render and the frame handler make of the sample (time, offset)
\* in the current state: candidates, active words, displayed segments,
\* per-word flags, per-character start decisions and the wave positions
frameView(time, offset) ==
    LET r  == renderCaptions(timingData, containerSize, segmentCache,
                             currentSegmentIndex, time, offset)
        ce == getCurrentEvents(timingData, time, offset)
        comps == mountedComponents(captionBoxes(timingData, r.lineGroups),
                                   time, offset)
    IN  [preReading |-> ce.preReading,
         activeWords |-> ce.activeWords,
         lineGroups |-> r.lineGroups,
         words |-> wordDecisions(r.lineGroups, ce, time, offset),
         characters |-> [i \in 1..Len(comps) |->
                            shouldStartAnimation(comps[i], time, offset)],
         wave |-> sampleWave(theManager, time, offset).y]

\* C6: a sample (t, o) is treated like the sample (t - o, 0) of the same
\* adjusted time: same events, active words, segments, per-word and
\* per-character animation decisions and wave positions.
C6_OffsetUniform ==
    rendered =>
        frameView(currentTime, syncOffset) = frameView(currentTime - syncOffset, 0)

\* The part of C6 that holds: candidates, active words, displayed segments
\* and per-character start decisions depend on the adjusted time only.
C6_ResolverUniform ==
    rendered =>
        LET a == frameView(currentTime, syncOffset)
            b == frameView(currentTime - syncOffset, 0)
        IN  /\ a.preReading = b.preReading
            /\ a.activeWords = b.activeWords
            /\ a.lineGroups = b.lineGroups
            /\ a.characters = b.characters

\* C10: after the pause event has been handled no currentTime is published
\* until a play event is handled.
C10_NoPublicationWhilePaused ==
    sinceEvent.event = "pause" => ~sinceEvent.published

(***************************************************************************)
(* Claims on the clock sampler, under SpecClockSampler                     *)
(***************************************************************************)
\* the registered time-source callbacks
Outstanding ==
    (IF vfcPending THEN 1 ELSE 0) + (IF rafPending THEN 1 ELSE 0)
        + orphanCallbacks.vfc + orphanCallbacks.raf

C12_PublicationUpdatesWaves ==
    [][ currentTime' # currentTime =>
          /\ lastCall'.op = "updateWaveAnimations"
          /\ waveAnimations' = updateWaveAnimations(theManager, currentTime').wave
          /\ elY' = updateWaveAnimations(theManager, currentTime').y ]_vars

(***************************************************************************)
(* The loader: loadTimingSync (URL) and handleTimingSyncFile (local file). *)
(* Both are async: the part before the first await runs when the handler   *)
(* is called, the rest when the awaited promise settles, and other         *)
(* handlers run in between.                                                *)
(***************************************************************************)

\* attempts of one kind that may await their promise at the same time
MaxPending == 2

\* the state the loader reads and writes
LoaderState(data, err, loading) ==
    [timingData |-> data, error |-> err, isLoading |-> loading]

Outcome(kind, data) == [kind |-> kind, data |-> data]

\* how fetch(url) followed by response.json() can end: a parsed document, a
\* response that is not ok, a rejected fetch, a body that is not JSON
UrlOutcomes ==
    { Outcome("ok", <<d>>) : d \in PlayerDocs }
        \cup { Outcome(k, <<>>) : k \in {"http", "network", "parse"} }

\* how file.text() followed by JSON.parse can end
FileOutcomes ==
    { Outcome("ok", <<d>>) : d \in PlayerDocs } \cup { Outcome("parse", <<>>) }

\* error.message of what the try block threw
errorMessage(kind) ==
    CASE kind = "http" -> "HTTP 404: Not Found"
      [] kind = "network" -> "Failed to fetch"
      [] OTHER -> "Unexpected token"

\* mutant: the catch block of loadTimingSync also drops the document
loadTimingSyncSettledDropping(outcome, prior) ==
    IF outcome.kind = "ok"
    THEN LoaderState(outcome.data, prior.error, FALSE)
    ELSE LoaderState(<<>>, <<"Failed to load timing sync data: ">>, FALSE)

\* loadTimingSync after its awaits: setTimingData(data) on success, the
\* catch block otherwise, and the finally block in both cases
loadTimingSyncSettled(outcome, prior) ==
    IF outcome.kind = "ok"
    THEN LoaderState(outcome.data, prior.error, FALSE)
    ELSE LoaderState(prior.timingData,
                     << <<"Failed to load timing sync data: ",
                          errorMessage(outcome.kind)>> >>,
                     FALSE)

\* handleTimingSyncFile after its await: setTimingData(data) and
\* setError(null) on success, the catch block otherwise
handleTimingSyncFileSettled(outcome, prior) ==
    IF outcome.kind = "ok"
    THEN LoaderState(outcome.data, <<>>, prior.isLoading)
    ELSE LoaderState(prior.timingData,
                     << <<"Failed to load timing sync file: ",
                          errorMessage(outcome.kind)>> >>,
                     prior.isLoading)

SetLoader(next) ==
    /\ timingData' = next.timingData
    /\ error' = next.error
    /\ isLoading' = next.isLoading

\* loadTimingSync(url) up to "await fetch(url)"
loadTimingSyncBegin ==
    /\ pendingLoads.url < MaxPending
    /\ isLoading' = TRUE
    /\ error' = <<>>
    /\ pendingLoads' = [pendingLoads EXCEPT !.url = @ + 1]
    /\ lastCall' = Call("loadTimingSync", 0)
    /\ UNCHANGED loadRequests
    /\ UNCHANGED <<colorVars, timingData, activeAnimations, waveAnimations,
                   elY, waveChar, renderVars, clockVars, hostVars>>

\* loadTimingSync(url) from the settled fetch to the end
loadTimingSyncSettle(outcome) ==
    /\ pendingLoads.url > 0
    /\ SetLoader(loadTimingSyncSettled(outcome,
                     LoaderState(timingData, error, isLoading)))
    /\ pendingLoads' = [pendingLoads EXCEPT !.url = @ - 1]
    /\ lastCall' = Call(IF outcome.kind = "ok" THEN "loadTimingSync.try"
                                               ELSE "loadTimingSync.catch", 0)
    /\ UNCHANGED loadRequests
    /\ UNCHANGED <<colorVars, activeAnimations, waveAnimations, elY, waveChar,
                   renderVars, clockVars, hostVars>>

\* handleTimingSyncFile(event) with a file chosen, up to "await file.text()"
handleTimingSyncFileBegin ==
    /\ pendingLoads.file < MaxPending
    /\ pendingLoads' = [pendingLoads EXCEPT !.file = @ + 1]
    /\ lastCall' = Call("handleTimingSyncFile", 0)
    /\ UNCHANGED loadRequests
    /\ UNCHANGED <<colorVars, timingData, error, isLoading, activeAnimations,
                   waveAnimations, elY, waveChar, renderVars, clockVars, hostVars>>

\* handleTimingSyncFile(event) from the text read to the end
handleTimingSyncFileSettle(outcome) ==
    /\ pendingLoads.file > 0
    /\ SetLoader(handleTimingSyncFileSettled(outcome,
                     LoaderState(timingData, error, isLoading)))
    /\ pendingLoads' = [pendingLoads EXCEPT !.file = @ - 1]
    /\ lastCall' = Call(IF outcome.kind = "ok" THEN "handleTimingSyncFile.try"
                                               ELSE "handleTimingSyncFile.catch", 0)
    /\ UNCHANGED loadRequests
    /\ UNCHANGED <<colorVars, activeAnimations, waveAnimations, elY, waveChar,
                   renderVars, clockVars, hostVars>>

NextLoader ==
    \/ loadTimingSyncBegin
    \/ \E outcome \in UrlOutcomes : loadTimingSyncSettle(outcome)
    \/ handleTimingSyncFileBegin
    \/ \E outcome \in FileOutcomes : handleTimingSyncFileSettle(outcome)

SpecLoader == InitClockSampler /\ [][NextLoader]_vars

\* the step is the end of an attempt that failed
urlAttemptFailed == lastCall'.op = "loadTimingSync.catch"
fileAttemptFailed == lastCall'.op = "handleTimingSyncFile.catch"

InitLayout ==
    /\ colorIn = <<>> /\ colorOut = <<>> /\ colorBack = <<>>
    /\ timingData \in { <<d>> : d \in ResolveDocs }
                        \cup { <<WithoutLayout(d)>> : d \in ResolveDocs }
    /\ activeAnimations = EmptyMap
    /\ waveAnimations = EmptyMap
    /\ elY = EmptyMap
    /\ lastCall = Call("none", 0)
    /\ waveChar = 0
    /\ currentTime = 0
    /\ syncOffset \in ResolveOffsets
    /\ containerSize = DefaultSize
    /\ segmentCache = EmptyMap
    /\ currentSegmentIndex = EmptyMap
    /\ lineGroups = NoLines
    /\ InitClock

SpecLayout == InitLayout /\ [][NextResolve]_vars

\* C14: when the loaded document has no layout_settings, a caption box is
\* still rendered for every occupied slot (every line of lineGroups that
\* holds an event) whenever an event is live.
C14_DefaultsRenderBoxes ==
    (rendered /\ timingData[1].layout_settings = <<>>) =>
        \A slot \in 1..2 :
            lineGroups[slot] # <<>> =>
                captionBoxes(timingData, lineGroups)[slot] # <<>>

\* with layout_settings holding both caption boxes every occupied slot renders
C14_LayoutRendersBoxes ==
    (rendered /\ timingData[1].layout_settings # <<>>) =>
        captionBoxes(timingData, lineGroups) = lineGroups

(***************************************************************************)
(* Segmentation of one event over word lists and container widths          *)
(***************************************************************************)

\* word lists: the i-th word is spoken during [i - 1, i]
RECURSIVE SegmentWordLists(_)
SegmentWordLists(n) ==
    IF n = 0 THEN { <<>> }
    ELSE { Append(l, Word(Text(len), n - 1, n - 1, n, n - 1, Plain)) :
             l \in SegmentWordLists(n - 1), len \in 1..MaxWordLen }

SegmentDocs ==
    UNION { { TimingSyncData(<<SyncEvent("A", "S1", 0, MaxWords, l)>>) :
                l \in SegmentWordLists(n) } : n \in 1..MaxWords }

\* container widths: nothing fits, one short word fits, two short words fit,
\* every list fits
SegmentSizes ==
    { [width |-> w, height |-> DefaultHeight] : w \in {0, 70, 100, 2000} }

InitSegment ==
    /\ colorIn = <<>> /\ colorOut = <<>> /\ colorBack = <<>>
    /\ timingData \in { <<d>> : d \in SegmentDocs }
    /\ activeAnimations = EmptyMap
    /\ waveAnimations = EmptyMap
    /\ elY = EmptyMap
    /\ lastCall = Call("none", 0)
    /\ waveChar = 0
    /\ currentTime = 0
    /\ syncOffset = 0
    /\ containerSize \in SegmentSizes
    /\ segmentCache = EmptyMap
    /\ currentSegmentIndex = EmptyMap
    /\ lineGroups = NoLines
    /\ InitClock

NextSegment == \E t \in Times : ResolveAt(t)

SpecSegment == InitSegment /\ [][NextSegment]_vars

\* (word.word.length + 1) * charWidth
wordWidth(word, size) == (Len(word.word) + 1) * charWidth(size)

\* the estimated width a segment accumulates
RECURSIVE segmentWidth(_, _)
segmentWidth(segment, size) ==
    IF segment = <<>> THEN 0
    ELSE wordWidth(Head(segment), size) + segmentWidth(Tail(segment), size)

\* the words of the segments, in order
RECURSIVE segmentWords(_)
segmentWords(segments) ==
    IF segments = <<>> THEN <<>>
    ELSE Head(segments) \o segmentWords(Tail(segments))

\* the segments cached for the only event of the document
cachedSegments == segmentCache[cacheKey(timingData[1].sync_events[1], containerSize)]

segmentsCached ==
    MapHas(segmentCache, cacheKey(timingData[1].sync_events[1], containerSize))

\* C15: the segmentation packs the words greedily from left to right with
\* estimated width (len(word) + 1) * charWidth: the segments are the word
\* list cut into non-empty pieces (no word dropped, truncated or moved),
\* every segment of more than one word has accumulated width <= the
\* maximum, a segment is closed only when the next word would not fit, and a
\* word wider than the maximum alone is a segment of its own.
C15_GreedySegmentation ==
    segmentsCached =>
        LET segments == cachedSegments
            maxWidth == captionBoxMaxWidth(containerSize)
        IN  /\ segmentWords(segments) = timingData[1].sync_events[1].active_speech_words
            /\ \A k \in 1..Len(segments) :
                  /\ Len(segments[k]) > 0
                  /\ Len(segments[k]) > 1 =>
                        segmentWidth(segments[k], containerSize) <= maxWidth
                  /\ k < Len(segments) =>
                        segmentWidth(segments[k], containerSize)
                          + wordWidth(segments[k + 1][1], containerSize) > maxWidth
                  /\ \A j \in 1..Len(segments[k]) :
                        wordWidth(segments[k][j], containerSize) > maxWidth
                            => Len(segments[k]) = 1

\* a cached segmentation with a segment of two words and a word wider than
\* the maximum in a segment of its own
C15_Witness ==
    /\ segmentsCached
    /\ \E k \in 1..Len(cachedSegments) : Len(cachedSegments[k]) > 1
    /\ \E k \in 1..Len(cachedSegments) :
          /\ Len(cachedSegments[k]) = 1
          /\ wordWidth(cachedSegments[k][1], containerSize)
                > captionBoxMaxWidth(containerSize)

(***************************************************************************)
(* Resizing the container between renders                                  *)
(***************************************************************************)

\* container sizes the ResizeObserver reports: one, two or three words of
\* two characters fit; 101 is within one pixel of 100
ResizeSizes ==
    { [width |-> w, height |-> DefaultHeight] : w \in {60, 100, 101, DefaultWidth} }

InitResize ==
    /\ colorIn = <<>> /\ colorOut = <<>> /\ colorBack = <<>>
    /\ timingData \in { <<d>> : d \in PlayerDocs }
    /\ activeAnimations = EmptyMap
    /\ waveAnimations = EmptyMap
    /\ elY = EmptyMap
    /\ lastCall = Call("none", 0)
    /\ waveChar = 0
    /\ currentTime = 0
    /\ syncOffset = 0
    /\ containerSize = DefaultSize
    /\ segmentCache = EmptyMap
    /\ currentSegmentIndex = EmptyMap
    /\ lineGroups = NoLines
    /\ InitClock

\* setCurrentTime(t) and the render that follows
setCurrentTimeAndRender(t) ==
    LET r == renderCaptions(timingData, containerSize, segmentCache,
                            currentSegmentIndex, t, syncOffset)
    IN  /\ currentTime' = t
        /\ segmentCache' = r.segmentCache
        /\ currentSegmentIndex' = r.currentSegmentIndex
        /\ lineGroups' = r.lineGroups
        /\ lastCall' = Call("setCurrentTime", 0)
        /\ UNCHANGED <<colorVars, timingData, loaderVars, activeAnimations,
                       waveAnimations, elY, waveChar, syncOffset, containerSize,
                       clockVars, hostVars>>

\* Math.abs(newWidth - containerSize.width) > 1
\*   || Math.abs(newHeight - containerSize.height) > 1
sizeDiffers(newSize, size) ==
    \/ newSize.width - size.width > 1 \/ size.width - newSize.width > 1
    \/ newSize.height - size.height > 1 \/ size.height - newSize.height > 1

\* the timeout callback of the ResizeObserver callback for an entry with
\* contentRect = newSize, and the render that follows setContainerSize
resizeTimeoutCallback(newSize) ==
    IF sizeDiffers(newSize, containerSize)
    THEN LET r == renderCaptions(timingData, newSize, segmentCache,
                                 currentSegmentIndex, currentTime, syncOffset)
         IN  /\ containerSize' = newSize
             /\ segmentCache' = r.segmentCache
             /\ currentSegmentIndex' = r.currentSegmentIndex
             /\ lineGroups' = r.lineGroups
             /\ lastCall' = Call("setContainerSize", 0)
             /\ UNCHANGED <<colorVars, timingData, loaderVars, activeAnimations,
                            waveAnimations, elY, waveChar, currentTime,
                            syncOffset, clockVars>>
    ELSE UNCHANGED <<colorVars, timingData, loaderVars, managerVars, waveChar,
                     renderVars, clockVars>>

\* a resize notification whose timeout has gone off
handleResize(newSize) ==
    /\ resizeTimeoutCallback(newSize)
    /\ UNCHANGED hostVars

NextResize ==
    \/ \E t \in PlayerTimes : setCurrentTimeAndRender(t)
    \/ \E newSize \in ResizeSizes : handleResize(newSize)

SpecResize == InitResize /\ [][NextResize]_vars

\* C16: segments and the segment index are stored per (event_id, width,
\* height).  After a resize to a different size, every displayed event shows
\* the segments computed for the new size, at the index chosen from the
\* entry the index map held under the new key before the resize (0 if it
\* held none), never from the entry of the old key; both are stored under
\* the new key.
C16_ResizeUsesNewKey ==
    [][ containerSize' # containerSize =>
          \A slot \in 1..2 :
            lineGroups'[slot] # <<>> =>
              LET shown    == lineGroups'[slot][1]
                  event    == syncEvents(timingData)[shown.event]
                  newKey   == <<event.event_id, containerSize'.width,
                                containerSize'.height>>
                  segments == computeSegments(event, containerSize')
                  previous == IF MapHas(currentSegmentIndex, newKey)
                              THEN currentSegmentIndex[newKey] ELSE 0
                  index    == segmentIndex(event, segments, previous,
                                           currentTime' - syncOffset)
              IN  /\ shown.active_speech_words = segmentAt(segments, index)
                  /\ MapHas(segmentCache', newKey)
                  /\ segmentCache'[newKey] = segments
                  /\ MapHas(currentSegmentIndex', newKey)
                  /\ currentSegmentIndex'[newKey] = index ]_vars

\* a resize has just been rendered, and the index map holds different
\* indices for the same event under the new size and under another size
C16_Witness ==
    /\ lastCall.op = "setContainerSize"
    /\ lineGroups[2] # <<>>
    /\ \E old \in ResizeSizes :
          LET event  == syncEvents(timingData)[lineGroups[2][1].event]
              newKey == cacheKey(event, containerSize)
              oldKey == cacheKey(event, old)
          IN  /\ MapHas(currentSegmentIndex, oldKey)
              /\ MapHas(currentSegmentIndex, newKey)
              /\ currentSegmentIndex[oldKey] > currentSegmentIndex[newKey]
              /\ Len(segmentCache[oldKey]) # Len(segmentCache[newKey])

(***************************************************************************)
(* Play and pause over a loaded document                                   *)
(***************************************************************************)

\* the mounted player, paused, no document loaded,
\* requestVideoFrameCallback available
InitPlayPause ==
    /\ InitClockSampler
    /\ hasRVFC = TRUE

NextPlayPause ==
    \/ \E data \in PlayerDocs : LoadTimingSync(data)
    \/ handlePlay
    \/ handlePause
    \/ \E t \in Times : handleTimeUpdate(t)
    \/ \E t \in Times : updateVideoFrame(t)
    \/ Commit
    \/ \E id \in DOMAIN activeAnimations : WaveTimelineComplete(id)

SpecPlayPause == InitPlayPause /\ [][NextPlayPause]_vars

\* the step is a play or pause event, or the commit that renders nothing but
\* the isPlaying change
playPauseStep ==
    \/ isPlaying' # isPlaying
    \/ /\ committed'.isPlaying # committed.isPlaying
       /\ committed.currentTime = currentTime
       /\ committed.timingData = timingData

\* the same, for a pause
pauseStep ==
    \/ isPlaying /\ ~isPlaying'
    \/ /\ committed.isPlaying /\ ~committed'.isPlaying
       /\ committed.currentTime = currentTime
       /\ committed.timingData = timingData

\* C17: play and pause events never change the loaded timing document, the
\* segmentation cache or the segment-index map, and a pause neither removes
\* nor resets a wave-animation record or a character offset.
C17_PlayPauseKeepState ==
    [][ /\ playPauseStep =>
            /\ timingData' = timingData
            /\ segmentCache' = segmentCache
            /\ currentSegmentIndex' = currentSegmentIndex
        /\ pauseStep =>
            /\ waveAnimations' = waveAnimations
            /\ elY' = elY ]_vars

\* the pause event has just been handled while a character is off the
\* baseline in the middle of its wave
C17_Witness ==
    /\ lastCall.op = "pauseAll"
    /\ ~isPlaying
    /\ timingData # <<>>
    /\ segmentCache # EmptyMap
    /\ waveAnimations # EmptyMap
    /\ \E el \in DOMAIN elY : elY[el] # 0

\* C18: on a new sample the displayed index of the bottom event stays while
\* a word of its current segment is active or not yet started, and becomes
\* min(currentIndex + 1, lastIndex) as soon as the end of the current
\* segment's last word has passed and no word of the segment is active, also
\* when the sample falls in the silent gap before the next segment.
C18_AdvancePolicy ==
    [][ ( /\ lastCall'.op = "setCurrentTime"
          /\ lineGroups'[2] # <<>>
          /\ MapHas(currentSegmentIndex,
                    cacheKey(syncEvents(timingData)[lineGroups'[2][1].event],
                             containerSize)) )
        => LET event    == syncEvents(timingData)[lineGroups'[2][1].event]
               key      == cacheKey(event, containerSize)
               segments == segmentCache[key]
               current  == currentSegmentIndex[key]
               segment  == segments[current + 1]
               adjustedTime == currentTime' - syncOffset
               active     == hasActiveWordIn(segment, adjustedTime)
               notStarted == \E j \in 1..Len(segment) :
                                adjustedTime < segment[j].start
               ended      == adjustedTime > segment[Len(segment)].end
           IN  /\ (active \/ notStarted) => currentSegmentIndex'[key] = current
               /\ (ended /\ ~active) =>
                     currentSegmentIndex'[key] = Min(current + 1, Len(segments) - 1)
      ]_vars

\* the part of the policy the code follows: the index moves only to the
\* segment that holds the word active at the sample, or to 0 before the
\* first word; with no word active it stays
C18_MovesOnlyToActiveSegment ==
    [][ ( /\ lastCall'.op = "setCurrentTime"
          /\ lineGroups'[2] # <<>>
          /\ MapHas(currentSegmentIndex,
                    cacheKey(syncEvents(timingData)[lineGroups'[2][1].event],
                             containerSize)) )
        => LET event    == syncEvents(timingData)[lineGroups'[2][1].event]
               key      == cacheKey(event, containerSize)
               segments == segmentCache[key]
               adjustedTime == currentTime' - syncOffset
               index    == currentSegmentIndex'[key]
           IN  \/ index = currentSegmentIndex[key]
               \/ hasActiveWordIn(segments[index + 1], adjustedTime)
               \/ index = 0 /\ adjustedTime < segments[1][1].start
      ]_vars

(***************************************************************************)
(* Slot assignment, under SpecResolve                                      *)
(***************************************************************************)
\* the event the render selects as currentEvent, 0 when there is none
selectedEvent ==
    selectCurrentEvent(timingData,
                       getCurrentEvents(timingData, currentTime, syncOffset),
                       currentTime, syncOffset)

\* the events of another speaker than e whose pre-reading window contains
\* the adjusted time
otherSpeakersInPreReading(e) ==
    { o \in eventsInPreReading :
        syncEvents(timingData)[o].speaker_id # syncEvents(timingData)[e].speaker_id }

\* C19: the top slot is filled only by an event of another speaker than the
\* primary whose pre-reading window contains adjustedTime; the primary is
\* always in the bottom slot; when there is no such other-speaker event only
\* the bottom slot is used; two events of one speaker are never shown
\* together.
C19_SlotAssignment ==
    rendered =>
        /\ Len(lineGroups[1]) <= 1 /\ Len(lineGroups[2]) <= 1
        /\ selectedEvent = 0 => lineGroups = NoLines
        /\ selectedEvent # 0 =>
              /\ lineGroups[2] # <<>>
              /\ lineGroups[2][1].event = selectedEvent
              /\ lineGroups[1] # <<>> =>
                    /\ lineGroups[1][1].event \in otherSpeakersInPreReading(selectedEvent)
                    /\ lineGroups[1][1].speaker_id # lineGroups[2][1].speaker_id
              /\ otherSpeakersInPreReading(selectedEvent) = {} => lineGroups[1] = <<>>

\* both slots are filled
C19_Witness ==
    /\ rendered
    /\ lineGroups[1] # <<>>
    /\ lineGroups[2] # <<>>
    /\ lineGroups[1][1].event # lineGroups[2][1].event

(***************************************************************************)
(* Characters outside their window, under SpecPlayer                       *)
(***************************************************************************)
\* the last sample has been rendered and its effects have run
sampleProcessed ==
    /\ timingData # <<>>
    /\ committed = Committed(currentTime, timingData, isPlaying)

\* the mounted CharacterWithBounce components of bouncing words
bouncingComponents ==
    LET comps == mountedComponents(captionBoxes(timingData, lineGroups),
                                   currentTime, syncOffset)
    IN  { comps[i] : i \in { j \in 1..Len(comps) :
            /\ comps[j].wordData.bouncing_animation # <<>>
            /\ comps[j].wordData.bouncing_animation[1].enabled } }

\* charEndTime of a component
charEndTimeOf(comp) ==
    LET charTiming == charTimingOf(comp.wordData, comp.charIndex)
    IN  IF charTiming # <<>> THEN charTiming[1].end_time ELSE comp.wordData.end

\* the transform y of an element; an element never set is on the baseline
offsetOf(element) == IF MapHas(elY, element) THEN elY[element] ELSE 0

\* some wave record animates the element
hasWaveRecord(element) ==
    \E id \in DOMAIN waveAnimations : waveAnimations[id].element = element

\* C20: once a sample whose adjusted time lies outside a character's
\* [start_time, end_time] window has been processed, the character's
\* vertical offset is 0, and when the adjusted time lies after the window
\* (settled) its wave record is removed.
C20_BaselineOutsideWindow ==
    sampleProcessed =>
        \A comp \in bouncingComponents :
            ~shouldStartAnimation(comp, currentTime, syncOffset) =>
                /\ offsetOf(comp.element) = 0
                /\ currentTime - syncOffset > charEndTimeOf(comp) =>
                      ~hasWaveRecord(comp.element)

\* the offset part alone, in the state the commit of the sample leaves
C20_OffsetZeroAfterCommit ==
    (sampleProcessed /\ lastCall.op = "render") =>
        \A comp \in bouncingComponents :
            ~shouldStartAnimation(comp, currentTime, syncOffset) =>
                offsetOf(comp.element) = 0

\* the record part alone, when the sample came through a frame callback
C20_RecordRemovedByFrame ==
    (sampleProcessed /\ lastCall.op = "updateWaveAnimations") =>
        \A comp \in bouncingComponents :
            currentTime - syncOffset > charEndTimeOf(comp) =>
                ~hasWaveRecord(comp.element)

(***************************************************************************)
(* Colour transitions of the mounted characters                            *)
(***************************************************************************)
\* the player in playback with the captions on time (syncOffset = 0)
InitSeek ==
    /\ InitPlayer
    /\ syncOffset = 0

SpecSeek == InitSeek /\ [][NextPlayer]_vars

TransitionWord(st, pron, timing) ==
    LET w == Word(Text(1), 0, st, MaxTime, 0, <<Bouncing(FALSE, 0, 2, 0, timing)>>)
    IN  IF pron = <<>>
        THEN [f \in DOMAIN w \ {"pronunciation_start"} |-> w[f]]
        ELSE [w EXCEPT !.pronunciation_start = pron[1]]

TransitionTimings ==
    {<<>>, <<CharTiming(0, MaxTime, FALSE, 0)>>}
        \cup { <<CharTiming(0, MaxTime, TRUE, p)>> : p \in 0..MaxTime }

TransitionWords ==
    { TransitionWord(st, pron, timing) :
        st \in 0..(MaxTime - 1),
        pron \in {<<>>} \cup { <<p>> : p \in 0..MaxTime },
        timing \in TransitionTimings }

\* the mounted player during playback, the document data just loaded and not
\* yet rendered
InitLoaded(data, size) ==
    /\ colorIn = <<>> /\ colorOut = <<>> /\ colorBack = <<>>
    /\ InitLoader
    /\ timingData = <<data>>
    /\ activeAnimations = EmptyMap
    /\ waveAnimations = EmptyMap
    /\ elY = EmptyMap
    /\ lastCall = Call("none", 0)
    /\ waveChar = 0
    /\ currentTime = 0
    /\ syncOffset = 0
    /\ containerSize = size
    /\ segmentCache = EmptyMap
    /\ currentSegmentIndex = EmptyMap
    /\ lineGroups = NoLines
    /\ isPlaying = TRUE
    /\ committed = Committed(0, <<>>, TRUE)
    /\ vfcPending = TRUE
    /\ rafPending = FALSE
    /\ hasRVFC = TRUE
    /\ orphanCallbacks = [vfc |-> 0, raf |-> 0]
    /\ charRefs = <<>>
    /\ colorRefs = <<>>
    /\ InitHost
    /\ sinceEvent = [event |-> "play", published |-> FALSE]

InitTransition ==
    \E w \in TransitionWords :
        InitLoaded(TimingSyncData(<<SyncEvent("A", "S1", 0, MaxTime, <<w>>)>>),
                   DefaultSize)

NextTransition ==
    \/ \E t \in 0..MaxTime : handleTimeUpdate(t)
    \/ Commit

SpecTransition == InitTransition /\ [][NextTransition]_vars

\* the useMemo of CharacterWithBounce: the colour the character is drawn in
currentColor(comp, time, offset) ==
    IF time - offset >= colorTransitionTime(comp.wordData, comp.charIndex)
    THEN "to_color" ELSE "from_color"

\* peak_time ?? pronunciation_start ?? start
nullishTransitionTime(wordData, charIndex) ==
    LET charTiming == charTimingOf(wordData, charIndex)
    IN  IF charTiming # <<>> /\ charTiming[1].hasPeak THEN charTiming[1].peak_time
        ELSE IF "pronunciation_start" \in DOMAIN wordData
             THEN wordData.pronunciation_start
             ELSE wordData.start

\* C22: the transition time a mounted character has fired its colour
\* transition for, and the time from which it is drawn in to_color, is the
\* character timing's peak_time when present, otherwise the word's
\* pronunciation_start when present (0 included), otherwise the word's start.
C22_TransitionTimeNullish ==
    sampleProcessed =>
        LET comps == mountedComponents(captionBoxes(timingData, lineGroups),
                                       currentTime, syncOffset)
        IN  \A i \in 1..Len(comps) :
              LET t == nullishTransitionTime(comps[i].wordData, comps[i].charIndex)
              IN  /\ (currentColor(comps[i], currentTime, syncOffset) = "to_color")
                        <=> (currentTime - syncOffset >= t)
                  /\ comps[i].element \in DOMAIN colorRefs
                        /\ colorRefs[comps[i].element].fires >= 1
                     => colorRefs[comps[i].element].last = t

\* the cases in which the code does follow the chain: pronunciation_start is
\* missing or not 0, or a peak_time is given
C22_TransitionTimeNonZero ==
    sampleProcessed =>
        LET comps == mountedComponents(captionBoxes(timingData, lineGroups),
                                       currentTime, syncOffset)
        IN  \A i \in 1..Len(comps) :
              LET w == comps[i].wordData
                  t == nullishTransitionTime(w, comps[i].charIndex)
              IN  \/ /\ "pronunciation_start" \in DOMAIN w
                     /\ w.pronunciation_start = 0
                     /\ ~(charTimingOf(w, comps[i].charIndex) # <<>>
                            /\ charTimingOf(w, comps[i].charIndex)[1].hasPeak)
                  \/ /\ comps[i].element \in DOMAIN colorRefs
                     /\ colorRefs[comps[i].element].fires >= 1
                        => colorRefs[comps[i].element].last = t

(***************************************************************************)
(* The size of the manager's maps under seeks, under SpecReplay: one       *)
(* document, samples at every time in any order.                           *)
(***************************************************************************)
InitReplay == \E data \in PlayerDocs : InitLoaded(data, NarrowSize)

NextReplay ==
    \/ \E t \in PlayerTimes : handleTimeUpdate(t)
    \/ \E t \in PlayerTimes : updateVideoFrame(t)
    \/ Commit
    \/ \E id \in DOMAIN activeAnimations : WaveTimelineComplete(id)

SpecReplay == InitReplay /\ [][NextReplay]_vars

\* the data-char-index values of the characters of a document
charIndices(data) ==
    UNION { { c - 1 : c \in 1..Len(data.sync_events[e].active_speech_words[w].word) } :
              <<e, w>> \in { <<e, w>> \in (1..Len(data.sync_events)) \X (1..MaxWords) :
                               w <= Len(data.sync_events[e].active_speech_words) } }

\* the animation kinds the manager keeps handles of: bounce and color
AnimationKinds == {"bounce", "color"}

\* C23: whatever samples arrive, forward or backward, activeAnimations holds at
\* most one handle per character index and animation kind of the document and
\* waveAnimations at most one record per character index.
C23_MapsBounded ==
    timingData # <<>> =>
        /\ Cardinality(DOMAIN activeAnimations)
              <= Cardinality(charIndices(timingData[1])) * Cardinality(AnimationKinds)
        /\ Cardinality(DOMAIN waveAnimations)
              <= Cardinality(charIndices(timingData[1]))

\* both maps are full after a backward seek to before the start of a word
\* whose bounce had been started
C23_Witness ==
    /\ sampleProcessed
    /\ Cardinality(DOMAIN activeAnimations)
          = Cardinality(charIndices(timingData[1])) * Cardinality(AnimationKinds)
    /\ Cardinality(DOMAIN waveAnimations) = Cardinality(charIndices(timingData[1]))
    /\ \E id \in DOMAIN waveAnimations :
          waveAnimations[id].startTime > currentTime - syncOffset

(***************************************************************************)
(* Characters inside their window, under SpecReplay                        *)
(***************************************************************************)
\* C24: once a sample has been processed, every mounted character of a
\* bouncing word whose [start_time, end_time] window contains the adjusted
\* time has a wave record in the manager, also when the window was entered
\* again by a backward seek after the earlier record had been removed.
C24_WaveRecordInWindow ==
    sampleProcessed =>
        \A comp \in bouncingComponents :
            shouldStartAnimation(comp, currentTime, syncOffset) =>
                hasWaveRecord(comp.element)

(***************************************************************************)
(* The resize debounce: the ResizeObserver callback, time passing and the  *)
(* timeout going off.  resizeObserver.timer is <<>> or the pending timeout *)
(* with the entry it will read and the ms since setTimeout;                *)
(* resizeObserver.notified is the last notification and the ms since it.   *)
(***************************************************************************)
\* setTimeout(..., 16)
ResizeDelayMs == 16

\* mutant: a pending timeout is kept running and only handed the new entry
scheduleResizeNoRestart(timer, entry) ==
    IF timer = <<>> THEN <<[entry |-> entry, age |-> 0]>>
    ELSE <<[timer[1] EXCEPT !.entry = entry]>>

\* clearTimeout(resizeTimeout); resizeTimeout = window.setTimeout(..., 16)
scheduleResize(timer, entry) == <<[entry |-> entry, age |-> 0]>>

\* the longest burst of notifications followed
MaxBurst == 2

\* the ResizeObserver callback with one entry of contentRect = newSize;
\* notified.burst counts the notifications since no timeout was pending
ResizeNotify(newSize) ==
    /\ resizeObserver.timer # <<>> => resizeObserver.notified[1].burst < MaxBurst
    /\ resizeObserver' =
          [timer |-> scheduleResize(resizeObserver.timer, newSize),
           notified |-> <<[size |-> newSize, ago |-> 0,
                           burst |-> IF resizeObserver.timer = <<>> THEN 1
                                     ELSE resizeObserver.notified[1].burst + 1]>>]
    /\ UNCHANGED <<colorVars, timingData, loaderVars, managerVars, waveChar,
                   renderVars, clockVars, mounted>>

\* ms milliseconds pass while a timeout is pending and not yet due
Tick(ms) ==
    /\ resizeObserver.timer # <<>>
    /\ resizeObserver.timer[1].age < ResizeDelayMs
    /\ resizeObserver' =
          [timer |-> <<[resizeObserver.timer[1] EXCEPT !.age = @ + ms]>>,
           notified |-> <<[resizeObserver.notified[1] EXCEPT !.ago = @ + ms]>>]
    /\ UNCHANGED <<colorVars, timingData, loaderVars, managerVars, waveChar,
                   renderVars, clockVars, mounted>>

\* the pending timeout goes off, 16 ms or more after it was set
ResizeTimeout ==
    /\ resizeObserver.timer # <<>>
    /\ resizeObserver.timer[1].age >= ResizeDelayMs
    /\ resizeTimeoutCallback(resizeObserver.timer[1].entry)
    /\ resizeObserver' = [resizeObserver EXCEPT !.timer = <<>>]
    /\ UNCHANGED mounted

(***************************************************************************)
(* Unmounting the player, under SpecUnmount: the clock sampler with a      *)
(* document, resize notifications, and the unmount at any moment.          *)
(***************************************************************************)
\* React 18 (README.md) detaches the ref of the <video> element while it
\* commits the removal, before the cleanups of useEffect run: the cleanups
\* read videoRef.current = null.  The cleanups: clearAll(); the frame
\* callback cleanup, which cancels the animation frame and, only if
\* videoRef.current is set, the video frame callback; clearTimeout and
\* disconnect of the resize effect.
Unmount ==
    /\ mounted
    /\ mounted' = FALSE
    /\ SetManager(clearAll(theManager), Call("clearAll", 0))
    /\ rafPending' = cancelCallback(rafPending)
    /\ resizeObserver' = [resizeObserver EXCEPT !.timer = <<>>]
    /\ UNCHANGED <<colorVars, timingData, loaderVars, waveChar, renderVars,
                   isPlaying, committed, vfcPending, hasRVFC, orphanCallbacks,
                   charRefs, colorRefs, sinceEvent>>

\* a video frame callback left registered runs after the unmount:
\* videoRef.current is null and it returns
updateVideoFrameUnmounted ==
    /\ ~mounted
    /\ vfcPending
    /\ vfcPending' = FALSE
    /\ UNCHANGED <<colorVars, timingData, loaderVars, managerVars, waveChar,
                   renderVars, isPlaying, committed, rafPending, hasRVFC,
                   orphanCallbacks, charRefs, colorRefs, sinceEvent, hostVars>>

NextUnmount ==
    \/ /\ mounted
       /\ \/ handlePlay
          \/ handlePause
          \/ LoadTimingSync(PlayerDocTwo)
          \/ \E t \in Times : updateVideoFrame(t)
          \/ \E t \in Times : fallbackUpdate(t)
          \/ Commit
          \/ ResizeNotify(NarrowSize)
          \/ Tick(ResizeDelayMs)
          \/ ResizeTimeout
    \/ Unmount
    \/ updateVideoFrameUnmounted

SpecUnmount == InitClockSampler /\ [][NextUnmount]_vars

\* C25: after the unmount the manager holds no animation handle, no video
\* frame callback and no animation frame is pending, and no resize timeout
\* is pending.
C25_UnmountLeavesNothing ==
    ~mounted =>
        /\ activeAnimations = EmptyMap
        /\ ~vfcPending /\ ~rafPending
        /\ orphanCallbacks = [vfc |-> 0, raf |-> 0]
        /\ resizeObserver.timer = <<>>

\* all of it but the video frame callback
C25_UnmountClearsRest ==
    ~mounted =>
        /\ activeAnimations = EmptyMap
        /\ ~rafPending
        /\ orphanCallbacks = [vfc |-> 0, raf |-> 0]
        /\ resizeObserver.timer = <<>>

(***************************************************************************)
(* What the word map renders for one word: the style of the word span and  *)
(* the characters inside it.  Font sizes are in 1/1000 px (percentages are *)
(* kept times ten), a missing style property is <<>>.                      *)
(***************************************************************************)
\* 'rgba(255, 255, 255, 0.9)'
PreReadingColor ==
    <<"r", "g", "b", "a", "(", "2", "5", "5", ",", " ", "2", "5", "5", ",", " ",
      "2", "5", "5", ",", " ", "0", ".", "9", ")">>

\* baseline_font_size_percent ?? 4.5 (no caption_box_style in the documents)
UnifiedBaselinePercentX10 == 45

\* const baselineSize = 5 * (actualSize.height / 100)
LegacyBaselinePercentX10 == 50

\* (config.scale_percent || 100)
DefaultScalePercent == 100

\* Math.max(300, wordData.font_adjustments.weight)
WhisperMinWeight == 300

\* Word['animation_config']; 0, "" and <<>> stand for a property not given
AnimationConfig(fontSizePercentX10, positionY, scalePercent, trembling, brightnessX10, fontWeight, textShadow, timings) ==
    [font_size_percent_x10 |-> fontSizePercentX10, position_y |-> positionY,
     scale_percent |-> scalePercent, trembling |-> trembling,
     brightness_x10 |-> brightnessX10, font_weight |-> fontWeight,
     text_shadow |-> textShadow, character_timings |-> timings,
     wave_height_range |-> [min |-> 1, max |-> 3]]

\* the style object of a word span with none of the optional properties
PlainStyle(color, fontSize, fontWeight) ==
    [color |-> color, fontSize |-> fontSize, fontWeight |-> fontWeight,
     transform |-> <<>>, animation |-> <<>>, filter |-> <<>>,
     textShadow |-> <<>>, opacity |-> <<>>]

\* mutant: the whisper and loud font size stays once the word is over
unifiedFontSizeSticky(wordData, isCurrentlyBeingPronounced, height) ==
    LET config == wordData.animation_config[1]
    IN  IF wordData.animation_type[1] \in {"whisper", "loud"}
           /\ config.font_size_percent_x10 # 0
        THEN config.font_size_percent_x10 * height
        ELSE UnifiedBaselinePercentX10 * height

\* fontSize of a unified word
unifiedFontSize(wordData, isCurrentlyBeingPronounced, height) ==
    LET config == wordData.animation_config[1]
        baselineSize == UnifiedBaselinePercentX10 * height
    IN  IF wordData.animation_type[1] \in {"whisper", "loud"}
           /\ config.font_size_percent_x10 # 0
        THEN IF isCurrentlyBeingPronounced
             THEN config.font_size_percent_x10 * height
             ELSE baselineSize
        ELSE baselineSize

\* mutant: the word keeps the pre-reading colour
wordColorOfPreReading(wordData, hasBeenPronounced) == PreReadingColor

\* wordColor of both paths
wordColorOf(wordData, hasBeenPronounced) ==
    IF hasBeenPronounced THEN assColorToCss(wordData.color_transition.to_color)
    ELSE PreReadingColor

\* the style of the span of a unified word that is not bouncing;
\* translateY is kept times 1080
unifiedWordStyle(wordData, time, offset, height) ==
    LET config == wordData.animation_config[1]
        type   == wordData.animation_type[1]
        hasBeenPronounced == time - offset >= wordData.start
        isCurrentlyBeingPronounced ==
            inWindow(time - offset, wordData.start, wordData.end)
    IN  [color |-> wordColorOf(wordData, hasBeenPronounced),
         fontSize |-> unifiedFontSize(wordData, isCurrentlyBeingPronounced, height),
         fontWeight |->
            IF isCurrentlyBeingPronounced /\ type = "loud" /\ config.font_weight # 0
            THEN config.font_weight ELSE wordData.font_adjustments.weight,
         transform |->
            IF isCurrentlyBeingPronounced /\ type = "elevation" /\ ~config.trembling
            THEN <<[translateY |-> config.position_y * height,
                    scale |-> IF config.scale_percent # 0 THEN config.scale_percent
                              ELSE DefaultScalePercent]>>
            ELSE <<>>,
         animation |->
            IF isCurrentlyBeingPronounced /\ type = "elevation" /\ config.trembling
            THEN <<"trembling-elevated 100ms infinite">> ELSE <<>>,
         filter |->
            IF isCurrentlyBeingPronounced /\ type = "loud" /\ config.brightness_x10 # 0
            THEN <<[brightness_x10 |-> config.brightness_x10]>> ELSE <<>>,
         textShadow |->
            IF isCurrentlyBeingPronounced /\ type = "loud" /\ config.text_shadow # ""
            THEN <<config.text_shadow>> ELSE <<>>,
         opacity |-> <<>>]

\* fontSize of a legacy word
legacyFontSize(wordData, isCurrentlyBeingPronounced, height) ==
    IF isCurrentlyBeingPronounced /\ hasSpecialEffect(wordData)
    THEN wordData.font_adjustments.size_percent_x10 * height
    ELSE LegacyBaselinePercentX10 * height

\* the style of the span of a legacy word with a special effect while it is
\* pronounced; currentEvents as resolved for time - offset
legacyWordStyle(wordData, currentEvents, time, offset, height) ==
    LET d == wordDecision(wordData, currentEvents, time, offset)
        effects == wordData.special_effects[1]
        weight == wordData.font_adjustments.weight
    IN  [color |-> wordColorOf(wordData, d.hasBeenPronounced),
         fontSize |-> legacyFontSize(wordData, d.isCurrentlyBeingPronounced, height),
         fontWeight |->
            \* 'bold' is weight 700
            IF effects.whisper_voice
            THEN (IF weight > WhisperMinWeight THEN weight ELSE WhisperMinWeight)
            ELSE 700,
         transform |->
            <<[translateY |-> 0,
               scale |-> IF d.shouldAnimate
                            /\ opt(wordData.bouncing_animation[1],
                                   "scale_increase_percent") # <<>>
                         THEN 100 + wordData.bouncing_animation[1].scale_increase_percent
                         ELSE 100]>>,
         animation |-> <<>>,
         filter |-> IF effects.whisper_voice THEN <<"blur(0.5px)">>
                    ELSE <<"brightness(1.1)">>,
         textShadow |-> IF effects.loud_voice
                        THEN <<"0 0 4px rgba(255, 255, 255, 0.3)">> ELSE <<>>,
         opacity |-> IF effects.whisper_voice THEN <<80>> ELSE <<>>]

\* one character of a word rendered character by character: a plain span
\* before the word's start, else a CharacterWithBounce drawn in currentColor,
\* which starts its bounce when the sample is inside its window
charRender(wordData, charIndex, time, offset) ==
    IF time - offset < wordData.start
    THEN [kind |-> "span", color |-> PreReadingColor, inBounceWindow |-> FALSE]
    ELSE LET comp == [charIndex |-> charIndex, wordData |-> charWordData(wordData)]
         IN  [kind |-> "CharacterWithBounce",
              color |-> IF currentColor(comp, time, offset) = "to_color"
                        THEN assColorToCss(wordData.color_transition.to_color)
                        ELSE assColorToCss(wordData.color_transition.from_color),
              inBounceWindow |->
                 /\ comp.wordData.bouncing_animation # <<>>
                 /\ comp.wordData.bouncing_animation[1].enabled
                 /\ shouldStartAnimation(comp, time, offset)]

\* what the word map returns for a word of the document data: the path
\* taken, the style of the word span and the characters rendered in it
renderWord(data, wordData, time, offset, height) ==
    LET branch == wordBranch(wordData, time, offset)
        isCurrentlyBeingPronounced ==
            inWindow(time - offset, wordData.start, wordData.end)
        chars  == [c \in 1..Len(wordData.word) |->
                     charRender(wordData, c - 1, time, offset)]
    IN  IF branch = "unified-word"
        THEN [path |-> "unified",
              style |-> unifiedWordStyle(wordData, time, offset, height),
              chars |-> <<>>]
        ELSE IF branch = "unified-chars"
        THEN [path |-> "unified",
              style |-> PlainStyle(<<>>, unifiedFontSize(wordData,
                                            isCurrentlyBeingPronounced, height),
                                   wordData.font_adjustments.weight),
              chars |-> chars]
        ELSE IF branch = "legacy-word"
        THEN [path |-> "legacy",
              style |-> legacyWordStyle(wordData, getCurrentEvents(data, time, offset),
                                        time, offset, height),
              chars |-> <<>>]
        ELSE [path |-> "legacy",
              style |-> PlainStyle(<<>>, legacyFontSize(wordData,
                                            isCurrentlyBeingPronounced, height),
                                   wordData.font_adjustments.weight),
              chars |-> chars]

(***************************************************************************)
(* SpecStyle: a document of one word, spoken during [1, 2], with every     *)
(* combination of unified and legacy animation fields, played at every     *)
(* time.                                                                   *)
(***************************************************************************)
AnimationTypes == {"bouncing", "elevation", "whisper", "loud", "normal"}

StyleConfigs ==
    { AnimationConfig(0, 0, 0, FALSE, 0, 0, "", <<>>),
      AnimationConfig(80, 0 - 50, 120, FALSE, 12, 700, "0 0 8px white", <<>>),
      AnimationConfig(30, 0 - 50, 0, TRUE, 0, 0, "",
                      <<CharTiming(1, 2, TRUE, 2)>>) }

LegacyBouncings == {<<>>, <<Bouncing(TRUE, 0, 2, 0, <<CharTiming(2, MaxTime, TRUE, 2)>>)>>}

SpecialEffects ==
    {<<>>} \cup { <<[loud_voice |-> l, whisper_voice |-> w]>> : l, w \in BOOLEAN }

StyleWord(type, config, bouncing, effects) ==
    [animation_type |-> type, animation_config |-> config,
     special_effects |-> effects,
     font_adjustments |-> [size_percent_x10 |-> 100, weight |-> 400],
     color_transition |->
        [from_color |-> <<"&", "H", "0", "0", "F", "F", "F", "F", "F", "F">>,
         to_color |-> <<"&", "H", "0", "0", "F", "F", "F", "F", "0", "0">>]]
      @@ Word(Text(1), 0, 1, 2, 1, bouncing)

StyleWords ==
    { StyleWord(type, config, bouncing, effects) :
        type \in {<<>>} \cup { <<t>> : t \in AnimationTypes },
        config \in {<<>>} \cup { <<c>> : c \in StyleConfigs },
        bouncing \in LegacyBouncings,
        effects \in SpecialEffects }

InitStyle ==
    \E w \in StyleWords :
        InitLoaded(TimingSyncData(<<SyncEvent("A", "S1", 0, MaxTime, <<w>>)>>),
                   DefaultSize)

SpecStyle == InitStyle /\ [][NextTransition]_vars

\* the word of the document and what the last commit rendered for it
styledWord == timingData[1].sync_events[1].active_speech_words[1]

renderedWord == renderWord(timingData, styledWord, currentTime, syncOffset,
                       containerSize.height)

wordIsDisplayed ==
    /\ sampleProcessed
    /\ \E line \in 1..2 : captionBoxes(timingData, lineGroups)[line] # <<>>

\* C26: a unified word outside its [start, end] window is renderedWord at the
\* baseline font size with no transform, animation, filter, shadow or weight
\* override; inside the window only the effects of its own animation_type
\* are applied: the transform (or trembling animation) for elevation only, a
\* font size other than the baseline for whisper and loud only, and the
\* brightness, shadow and weight overrides for loud only.
C26_UnifiedEffectsInWindowOnly ==
    wordIsDisplayed /\ usesUnified(styledWord) =>
        LET style == renderedWord.style
            type  == styledWord.animation_type[1]
            baseline == UnifiedBaselinePercentX10 * containerSize.height
            elevated == style.transform # <<>> \/ style.animation # <<>>
            resized  == style.fontSize # baseline
            loudened == \/ style.filter # <<>> \/ style.textShadow # <<>>
                        \/ style.fontWeight # styledWord.font_adjustments.weight
        IN  /\ ~inWindow(currentTime - syncOffset, styledWord.start, styledWord.end)
                 => ~elevated /\ ~resized /\ ~loudened
            /\ elevated => type = "elevation"
            /\ resized => type \in {"whisper", "loud"}
            /\ loudened => type = "loud"

\* a loud word inside its window, enlarged, brightened and heavier
C26_Witness ==
    /\ wordIsDisplayed /\ usesUnified(styledWord)
    /\ lastCall.op = "render"
    /\ styledWord.animation_type[1] = "loud"
    /\ inWindow(currentTime - syncOffset, styledWord.start, styledWord.end)
    /\ renderedWord.style.fontSize > UnifiedBaselinePercentX10 * containerSize.height
    /\ renderedWord.style.filter # <<>>
    /\ renderedWord.style.fontWeight # styledWord.font_adjustments.weight

\* a word stripped of its legacy animation fields
withoutLegacy(wordData) ==
    [wordData EXCEPT !.bouncing_animation = <<>>, !.special_effects = <<>>]

\* C27: one representation drives the rendering of a word.  A word with
\* animation_type and animation_config takes the unified path and is rendered
\* exactly as the same word without bouncing_animation and special_effects; a
\* word with neither unified field takes the legacy path.
C27_OneRepresentation ==
    wordIsDisplayed =>
        /\ usesUnified(styledWord) =>
              /\ renderedWord.path = "unified"
              /\ renderedWord = renderWord(timingData, withoutLegacy(styledWord),
                                           currentTime, syncOffset,
                                           containerSize.height)
        /\ styledWord.animation_type = <<>> /\ styledWord.animation_config = <<>>
              => renderedWord.path = "legacy"

\* the same for the unified words whose character timings do not come from
\* bouncing_animation: the words that are not bouncing, and the bouncing
\* words whose animation_config has character_timings
C27_UnifiedOnlyWithOwnTimings ==
    wordIsDisplayed /\ usesUnified(styledWord)
      /\ \/ styledWord.animation_type[1] # "bouncing"
         \/ styledWord.animation_config[1].character_timings # <<>>
      => /\ renderedWord.path = "unified"
         /\ renderedWord = renderWord(timingData, withoutLegacy(styledWord),
                                      currentTime, syncOffset,
                                      containerSize.height)

\* the colours the rendered word is drawn in: the colour of the word span,
\* or the colours of its characters
renderedColors ==
    IF renderedWord.chars = <<>> THEN {renderedWord.style.color}
    ELSE { renderedWord.chars[c].color : c \in DOMAIN renderedWord.chars }

\* C28: whichever path and animation_type renders the displayed word, it is
\* drawn in the pre-reading colour rgba(255, 255, 255, 0.9) while its start
\* is later than the adjusted time, and in no part in that colour once its
\* start has passed.
C28_PreReadingColor ==
    wordIsDisplayed =>
        IF currentTime - syncOffset < styledWord.start
        THEN renderedColors = {PreReadingColor}
        ELSE PreReadingColor \notin renderedColors

\* a legacy word with a special effect, past its start, drawn in to_color
C28_Witness ==
    /\ wordIsDisplayed /\ lastCall.op = "render"
    /\ currentTime - syncOffset >= styledWord.start
    /\ renderedWord.path = "legacy"
    /\ renderedWord.chars = <<>>
    /\ renderedColors = {assColorToCss(styledWord.color_transition.to_color)}

(***************************************************************************)
(* SpecDebounce: the mounted player and its ResizeObserver: notifications  *)
(* with any size at any moment, time passing, the timeout going off.       *)
(***************************************************************************)
\* the sizes notified: the initial size, one within a pixel of it and one
\* further away, in each dimension
DebounceSizes ==
    { [width |-> DefaultWidth + dw, height |-> DefaultHeight + dh] :
        dw \in {0, 1, 3}, dh \in {0, 1, 3} }

NextDebounce ==
    \/ \E newSize \in DebounceSizes : ResizeNotify(newSize)
    \/ \E ms \in {ResizeDelayMs \div 2, ResizeDelayMs} : Tick(ms)
    \/ ResizeTimeout

SpecDebounce == InitClockSampler /\ [][NextDebounce]_vars

\* |a - b|
Distance(a, b) == IF a > b THEN a - b ELSE b - a

\* C29: the container size is updated only when a timeout goes off at least
\* 16 ms after the last notification, at most once for the burst that ended
\* with that notification (the timeout is spent), to the size notified last,
\* and only if that size differs from the current one by more than 1 px in
\* width or height.
C29_TrailingDebounce ==
    [][ containerSize' # containerSize =>
          /\ resizeObserver.timer # <<>>
          /\ resizeObserver'.timer = <<>>
          /\ resizeObserver.notified[1].ago >= ResizeDelayMs
          /\ containerSize' = resizeObserver.notified[1].size
          /\ \/ Distance(containerSize'.width, containerSize.width) > 1
             \/ Distance(containerSize'.height, containerSize.height) > 1 ]_vars

\* the update made after a burst of notifications
C29_Witness ==
    /\ lastCall.op = "setContainerSize"
    /\ resizeObserver.timer = <<>>
    /\ resizeObserver.notified # <<>>
    /\ resizeObserver.notified[1].burst = MaxBurst
    /\ resizeObserver.notified[1].size = containerSize
    /\ containerSize # DefaultSize

\* a timeout that went off for a size within a pixel of the current one made
\* no update
C29_WitnessNoUpdate ==
    /\ resizeObserver.timer = <<>>
    /\ resizeObserver.notified # <<>>
    /\ resizeObserver.notified[1].ago >= ResizeDelayMs
    /\ resizeObserver.notified[1].size # containerSize
    /\ Distance(resizeObserver.notified[1].size.width, containerSize.width) <= 1
    /\ Distance(resizeObserver.notified[1].size.height, containerSize.height) <= 1

(***************************************************************************)
(* The segments as a partition of the word list, under SpecSegment         *)
(***************************************************************************)
\* the number of words in the segments before segment k
RECURSIVE wordsBefore(_, _)
wordsBefore(segments, k) ==
    IF k <= 1 THEN 0 ELSE Len(segments[k - 1]) + wordsBefore(segments, k - 1)

\* C30: the cached segments of an event are an ordered partition of its
\* active_speech_words: no segment is empty, segment k is the run of the
\* word list that starts where segment k - 1 ended, and the runs use up the
\* list, so that no word is lost, repeated or moved.
C30_OrderedPartition ==
    segmentsCached =>
        LET segments == cachedSegments
            words    == timingData[1].sync_events[1].active_speech_words
        IN  /\ \A k \in 1..Len(segments) :
                  /\ segments[k] # <<>>
                  /\ wordsBefore(segments, k) + Len(segments[k]) <= Len(words)
                  /\ segments[k] = SubSeq(words, wordsBefore(segments, k) + 1,
                                          wordsBefore(segments, k) + Len(segments[k]))
            /\ wordsBefore(segments, Len(segments) + 1) = Len(words)

\* a list of MaxWords words cut into more than one segment
C30_Witness ==
    /\ segmentsCached
    /\ Len(timingData[1].sync_events[1].active_speech_words) = MaxWords
    /\ Len(cachedSegments) > 1
    /\ Len(cachedSegments) < MaxWords

(***************************************************************************)
(* The stored segment index under samples in any order, under SpecIndex:   *)
(* one document of two speakers, one container size, and samples of every  *)
(* time forward and backward.                                              *)
(***************************************************************************)
\* Event A has three words, event B two; the windows of the first words are
\* free, so words overlap, leave gaps and come out of order.
IndexDocs ==
    { TimingSyncData(<<
        SyncEvent("A", "S1", 0, MaxTime,
                  << Word(Text(2), 0, a[1], a[2], a[1], Plain),
                     Word(Text(2), 1, b[1], b[2], b[1], Plain),
                     Word(Text(2), 2, MaxTime - 1, MaxTime, MaxTime - 1, Plain) >>),
        SyncEvent("B", "S2", 0, MaxTime,
                  << Word(Text(4), 0, c[1], c[2], c[1], Plain),
                     Word(Text(4), 1, 0, 1, 0, Plain) >>) >>) :
        a \in Windows, b \in Windows, c \in Windows }

\* one word of two characters fits / two fit
IndexSizes == { [width |-> 60, height |-> DefaultHeight], NarrowSize }

InitIndex ==
    /\ colorIn = <<>> /\ colorOut = <<>> /\ colorBack = <<>>
    /\ timingData \in { <<d>> : d \in IndexDocs }
    /\ activeAnimations = EmptyMap
    /\ waveAnimations = EmptyMap
    /\ elY = EmptyMap
    /\ lastCall = Call("none", 0)
    /\ waveChar = 0
    /\ currentTime = 0
    /\ syncOffset = 0
    /\ containerSize \in IndexSizes
    /\ segmentCache = EmptyMap
    /\ currentSegmentIndex = EmptyMap
    /\ lineGroups = NoLines
    /\ InitClock

NextIndex == \E t \in Times : setCurrentTimeAndRender(t)

SpecIndex == InitIndex /\ [][NextIndex]_vars

\* the events displayed in the two slots after a render
displayedEvents == { lineGroups[line][1] : line \in { l \in 1..2 : lineGroups[l] # <<>> } }

\* C31: after any sequence of samples of one document at one size, the
\* stored segment index of every displayed event lies in
\* 0..segmentCount - 1, and when the displayed event has a word active at
\* adjustedTime the displayed segment holds a word active at adjustedTime.
C31_IndexInRangeAndActive ==
    lastCall.op = "setCurrentTime" =>
        \A d \in displayedEvents :
            LET event == syncEvents(timingData)[d.event]
                key   == cacheKey(event, containerSize)
                adjustedTime == currentTime - syncOffset
            IN  /\ MapHas(segmentCache, key)
                /\ MapHas(currentSegmentIndex, key)
                /\ currentSegmentIndex[key] \in 0..(Len(segmentCache[key]) - 1)
                /\ d.active_speech_words = segmentCache[key][currentSegmentIndex[key] + 1]
                /\ hasActiveWordIn(event.active_speech_words, adjustedTime)
                      => hasActiveWordIn(d.active_speech_words, adjustedTime)

\* both slots are displayed: one event shows a later segment that holds the
\* active word, the other has no active word and keeps the later segment an
\* earlier sample stored, which a first render at this time would not show
C31_Witness ==
    /\ lastCall.op = "setCurrentTime"
    /\ lineGroups[1] # <<>> /\ lineGroups[2] # <<>>
    /\ \E d \in displayedEvents :
          /\ currentSegmentIndex[cacheKey(syncEvents(timingData)[d.event],
                                          containerSize)] >= 1
          /\ hasActiveWordIn(d.active_speech_words, currentTime - syncOffset)
    /\ \E d \in displayedEvents :
          LET event == syncEvents(timingData)[d.event]
              key   == cacheKey(event, containerSize)
          IN  /\ currentSegmentIndex[key] >= 1
              /\ ~hasActiveWordIn(event.active_speech_words, currentTime - syncOffset)
              /\ segmentIndex(event, segmentCache[key], 0, currentTime - syncOffset)
                    # currentSegmentIndex[key]

(***************************************************************************)
(* Reloading the document, under SpecReload: the document is replaced by   *)
(* another one with the same event_id while the container keeps its size.  *)
(***************************************************************************)
\* documents of one event "A" with one or two words
ReloadDocs ==
    UNION { { TimingSyncData(<<SyncEvent("A", "S1", 0, MaxTime, l)>>) :
                l \in SegmentWordLists(n) } : n \in 1..2 }

InitReload ==
    /\ colorIn = <<>> /\ colorOut = <<>> /\ colorBack = <<>>
    /\ timingData \in { <<d>> : d \in ReloadDocs }
    /\ activeAnimations = EmptyMap
    /\ waveAnimations = EmptyMap
    /\ elY = EmptyMap
    /\ lastCall = Call("none", 0)
    /\ waveChar = 0
    /\ currentTime = 0
    /\ syncOffset = 0
    /\ containerSize = NarrowSize
    /\ segmentCache = EmptyMap
    /\ currentSegmentIndex = EmptyMap
    /\ lineGroups = NoLines
    /\ InitClock

\* setTimingData(data) of a load that succeeded, and the render that
\* follows; segmentCacheRef and currentSegmentIndexRef are not touched
\* before the render reads them
setTimingDataAndRender(data) ==
    LET r == renderCaptions(<<data>>, containerSize, segmentCache,
                            currentSegmentIndex, currentTime, syncOffset)
    IN  /\ timingData' = <<data>>
        /\ segmentCache' = r.segmentCache
        /\ currentSegmentIndex' = r.currentSegmentIndex
        /\ lineGroups' = r.lineGroups
        /\ lastCall' = Call("setTimingData", 0)
        /\ UNCHANGED <<colorVars, loaderVars, activeAnimations,
                       waveAnimations, elY, waveChar, currentTime, syncOffset,
                       containerSize, clockVars, hostVars>>

NextReload ==
    \/ \E t \in Times : setCurrentTimeAndRender(t)
    \/ \E data \in ReloadDocs : setTimingDataAndRender(data)

SpecReload == InitReload /\ [][NextReload]_vars

\* C32: after a render, the words displayed for an event are a segment of
\* the segmentation of that event's word list in the document now loaded,
\* also after a reload that reuses the event_id at the same container size.
C32_SegmentsOfLoadedDocument ==
    lastCall.op \in {"setCurrentTime", "setTimingData"} =>
        \A d \in displayedEvents :
            LET segments == computeSegments(syncEvents(timingData)[d.event],
                                            containerSize)
            IN  \E k \in 1..Len(segments) : d.active_speech_words = segments[k]

\* the part that holds: the displayed words are the cached segment at the
\* stored index, and a key cached for the first time holds the segmentation
\* of the document loaded at that moment
C32_DisplayedFromCache ==
    lastCall.op \in {"setCurrentTime", "setTimingData"} =>
        \A d \in displayedEvents :
            LET key == cacheKey(syncEvents(timingData)[d.event], containerSize)
            IN  /\ MapHas(segmentCache, key)
                /\ d.active_speech_words
                      = segmentAt(segmentCache[key], currentSegmentIndex[key])

(***************************************************************************)
(* Animation ids of characters on screen together, under SpecReplay        *)
(***************************************************************************)
\* the wave record and the timeline stored under the id of the element
\* belong to the element
ownsBounce(active, wave, element) ==
    /\ MapHas(wave, bounceId(element))
    /\ wave[bounceId(element)].element = element
    /\ MapHas(active, bounceId(element))
    /\ active[bounceId(element)].element = element
    /\ active[bounceId(element)].state # "killed"

\* C33: a step never takes the bounce handle or the wave record of a
\* character that stays on screen inside its animation window and gives
\* them to another character: two characters on screen never share an
\* animation handle.
C33_NoSharedHandle ==
    [][ \A comp \in bouncingComponents :
          ( /\ comp \in bouncingComponents'
            /\ shouldStartAnimation(comp, currentTime', syncOffset')
            /\ ownsBounce(activeAnimations, waveAnimations, comp.element) )
          => /\ MapHas(waveAnimations', bounceId(comp.element))
                  => waveAnimations'[bounceId(comp.element)].element = comp.element
             /\ MapHas(activeAnimations', bounceId(comp.element))
                  => activeAnimations'[bounceId(comp.element)].element = comp.element
      ]_vars

\* the part that holds: the handle and the record stored under an id belong
\* to one and the same element with that data-char-index
C33_HandleAndRecordAgree ==
    \A id \in DOMAIN waveAnimations :
        /\ id = bounceId(waveAnimations[id].element)
        /\ (MapHas(activeAnimations, id) /\ activeAnimations[id].state # "killed")
              => activeAnimations[id].element = waveAnimations[id].element

(***************************************************************************)
(* Loads in flight together, under SpecRace: loadTimingSync(url) is called *)
(* again before the fetch of an earlier call has settled.  A call is       *)
(* [n |-> its number, url |-> its source]; every source serves one         *)
(* document.                                                               *)
(***************************************************************************)
\* loadTimingSync calls of one run
MaxRequests == 3

\* the sources of handleLoadTestTimingSync and handleLoadEnhancedTimingSync
Urls == {"generated_timing_sync.json", "enhanced_timing_sync.json"}

\* the document a source serves
SourceDoc(url) ==
    IF url = "generated_timing_sync.json" THEN PlayerDocOne ELSE PlayerDocTwo

\* loadTimingSync(url) up to "await fetch(url)"
loadTimingSyncCall(url) ==
    /\ loadRequests.made < MaxRequests
    /\ isLoading' = TRUE
    /\ error' = <<>>
    /\ pendingLoads' = [pendingLoads EXCEPT !.url = @ + 1]
    /\ loadRequests' =
          [inFlight |-> loadRequests.inFlight
                          \cup { [n |-> loadRequests.made + 1, url |-> url] },
           made |-> loadRequests.made + 1,
           latest |-> [url |-> url, kind |-> "pending"]]
    /\ lastCall' = Call("loadTimingSync", 0)
    /\ UNCHANGED <<colorVars, timingData, activeAnimations, waveAnimations,
                   elY, waveChar, renderVars, clockVars, hostVars>>

\* the fetch of one of the calls in flight settles, in any order, and the
\* call runs to its end: setTimingData or the catch block, then finally
loadTimingSyncResponse(request, kind) ==
    /\ request \in loadRequests.inFlight
    /\ SetLoader(loadTimingSyncSettled(
                     IF kind = "ok" THEN Outcome("ok", <<SourceDoc(request.url)>>)
                     ELSE Outcome(kind, <<>>),
                     LoaderState(timingData, error, isLoading)))
    /\ pendingLoads' = [pendingLoads EXCEPT !.url = @ - 1]
    /\ loadRequests' =
          [loadRequests EXCEPT
             !.inFlight = @ \ {request},
             !.latest = IF request.n = loadRequests.made
                        THEN [url |-> request.url, kind |-> kind] ELSE @]
    /\ lastCall' = Call(IF kind = "ok" THEN "loadTimingSync.try"
                                       ELSE "loadTimingSync.catch", 0)
    /\ UNCHANGED <<colorVars, activeAnimations, waveAnimations, elY, waveChar,
                   renderVars, clockVars, hostVars>>

NextRace ==
    \/ \E url \in Urls : loadTimingSyncCall(url)
    \/ \E n \in 1..MaxRequests, url \in Urls, kind \in {"ok", "http", "network", "parse"} :
          loadTimingSyncResponse([n |-> n, url |-> url], kind)

SpecRace == InitClockSampler /\ [][NextRace]_vars

\* C34: while a load is in flight the loading flag is true, and once every
\* load has finished and the most recently requested one succeeded, the
\* player holds the document of the most recently requested source,
\* whatever the order of the responses.
C34_LatestRequestWins ==
    /\ loadRequests.inFlight # {} => isLoading
    /\ (loadRequests.inFlight = {} /\ loadRequests.latest.kind = "ok")
          => timingData = <<SourceDoc(loadRequests.latest.url)>>

\* the part that holds: the flag is false when no load is in flight, and
\* the document held is the one of the response that arrived last among
\* the successful ones
C34_LastResponseWins ==
    /\ loadRequests.inFlight = {} => ~isLoading
    /\ lastCall.op = "loadTimingSync.try"
          => \E url \in Urls : timingData = <<SourceDoc(url)>>
    /\ timingData = <<>> \/ \E url \in Urls : timingData = <<SourceDoc(url)>>

(***************************************************************************)
(* The active flag of a displayed word, under SpecResolve                  *)
(***************************************************************************)
\* the flags of the displayed words of the last render, per line
displayedDecisions ==
    wordDecisions(lineGroups, getCurrentEvents(timingData, currentTime, syncOffset),
                  currentTime, syncOffset)

\* C35: a displayed word is flagged as currently active exactly when
\* adjustedTime lies within the [start, end] of that word in its own event;
\* an active word of another event with the same text and word_index does
\* not make it active.
C35_ActiveIffOwnWindow ==
    rendered =>
        \A line \in 1..2 :
            lineGroups[line] # <<>> =>
                \A j \in 1..Len(lineGroups[line][1].active_speech_words) :
                    LET wordData == lineGroups[line][1].active_speech_words[j]
                    IN  displayedDecisions[line][j].isCurrentlyActive
                          <=> inWindow(currentTime - syncOffset,
                                       wordData.start, wordData.end)

\* the part that holds: a word inside its own window is flagged, and a
\* flagged word outside its window has the text and word_index of an active
\* word of another event
C35_ActiveByTextAndIndex ==
    rendered =>
        \A line \in 1..2 :
            lineGroups[line] # <<>> =>
                \A j \in 1..Len(lineGroups[line][1].active_speech_words) :
                    LET wordData == lineGroups[line][1].active_speech_words[j]
                        own == inWindow(currentTime - syncOffset,
                                        wordData.start, wordData.end)
                        flag == displayedDecisions[line][j].isCurrentlyActive
                    IN  /\ own => flag
                        /\ (flag /\ ~own) =>
                              \E e \in 1..Len(syncEvents(timingData)) :
                                 /\ e # lineGroups[line][1].event
                                 /\ \E k \in 1..Len(syncEvents(timingData)[e].active_speech_words) :
                                       LET other == syncEvents(timingData)[e].active_speech_words[k]
                                       IN  /\ other.word = wordData.word
                                           /\ other.word_index = wordData.word_index
                                           /\ inWindow(currentTime - syncOffset,
                                                       other.start, other.end)

(***************************************************************************)
(* Segment counts over container widths, under SpecWidths: one event is    *)
(* rendered at time 0 and the container is resized through widths where    *)
(* nothing fits, one short word fits, and several words fit.               *)
(***************************************************************************)
WidthSizes ==
    { [width |-> w, height |-> DefaultHeight] : w \in {0, 50, 70, 100, 200} }

InitWidths ==
    /\ colorIn = <<>> /\ colorOut = <<>> /\ colorBack = <<>>
    /\ timingData \in { <<d>> : d \in SegmentDocs }
    /\ activeAnimations = EmptyMap
    /\ waveAnimations = EmptyMap
    /\ elY = EmptyMap
    /\ lastCall = Call("none", 0)
    /\ waveChar = 0
    /\ currentTime = 0
    /\ syncOffset = 0
    /\ containerSize = DefaultSize
    /\ segmentCache = EmptyMap
    /\ currentSegmentIndex = EmptyMap
    /\ lineGroups = NoLines
    /\ InitClock

NextWidths == \E newSize \in WidthSizes : handleResize(newSize)

SpecWidths == InitWidths /\ [][NextWidths]_vars

\* C36: for one event and one container height, the segmentations cached
\* for two widths are ordered: the narrower width never has fewer segments
\* than the wider one.
C36_CountMonotoneInWidth ==
    \A narrow \in DOMAIN segmentCache, wide \in DOMAIN segmentCache :
        ( /\ narrow[1] = wide[1]
          /\ narrow[3] = wide[3]
          /\ narrow[2] <= wide[2] )
        => Len(segmentCache[narrow]) >= Len(segmentCache[wide])

\* three widths are cached with three different segment counts, the
\* narrowest one with a word wider than the caption box
C36_Witness ==
    \E a \in DOMAIN segmentCache, b \in DOMAIN segmentCache, c \in DOMAIN segmentCache :
        /\ a[2] < b[2] /\ b[2] < c[2]
        /\ Len(segmentCache[a]) > Len(segmentCache[b])
        /\ Len(segmentCache[b]) > Len(segmentCache[c])
        /\ \E k \in 1..Len(segmentCache[a]) :
              wordWidth(segmentCache[a][k][1],
                        [width |-> a[2], height |-> a[3]])
                 > captionBoxMaxWidth([width |-> a[2], height |-> a[3]])

(***************************************************************************)
(* Ties in the event selection, under SpecOrder: documents of MaxEvents + 1 *)
(* events of two speakers whose words share their word_index.              *)
(***************************************************************************)
\* one word per event: word_index 0 spoken in [0,1], or word_index 1
\* spoken in [0,2]
OrderWordLists ==
    { <<Word(Text(1), 0, 0, 1, 0, Plain)>>, <<Word(Text(1), 1, 0, 2, 0, Plain)>> }

OrderEvents(id, speakers) ==
    { SyncEvent(id, sp, pre[1], pre[2], words) :
        sp \in speakers, pre \in ResolveWindows, words \in OrderWordLists }

RECURSIVE OrderEventLists(_)
OrderEventLists(n) ==
    IF n = 1 THEN { <<e>> : e \in OrderEvents(EventIds[1], {"S1"}) }
    ELSE { Append(l, e) : l \in OrderEventLists(n - 1),
                          e \in OrderEvents(EventIds[n], Speakers) }

InitOrder ==
    /\ colorIn = <<>> /\ colorOut = <<>> /\ colorBack = <<>>
    /\ timingData \in { <<TimingSyncData(l)>> : l \in OrderEventLists(MaxEvents + 1) }
    /\ activeAnimations = EmptyMap
    /\ waveAnimations = EmptyMap
    /\ elY = EmptyMap
    /\ lastCall = Call("none", 0)
    /\ waveChar = 0
    /\ currentTime = 0
    /\ syncOffset = 0
    /\ containerSize = DefaultSize
    /\ segmentCache = EmptyMap
    /\ currentSegmentIndex = EmptyMap
    /\ lineGroups = NoLines
    /\ InitClock

SpecOrder == InitOrder /\ [][NextResolve]_vars

\* the candidates with an active word, and those among them whose active
\* word has the lowest word_index
activeCandidates == eventsWithActiveWord \cap eventsInPreReading

lowestCandidates ==
    { e \in activeCandidates :
        \A o \in activeCandidates : activeIndex(e) <= activeIndex(o) }

\* the event of a non-empty set that comes first in sync_events
firstOf(events) == CHOOSE e \in events : \A o \in events : e <= o

\* the event in the top (secondary) box, 0 when the box is empty
secondaryEvent == IF lineGroups[1] = <<>> THEN 0 ELSE lineGroups[1][1].event

\* C37: the selection follows the document order: among the candidates
\* whose active word has the lowest word_index the first one in sync_events
\* is the primary; without an active word the first event whose pre-reading
\* window contains adjustedTime is the primary; the secondary is the first
\* candidate of another speaker in sync_events order.
C37_DocumentOrder ==
    rendered =>
        /\ activeCandidates # {} => primaryEvent = firstOf(lowestCandidates)
        /\ (activeCandidates = {} /\ eventsInPreReading # {})
              => primaryEvent = firstOf(eventsInPreReading)
        /\ (primaryEvent # 0 /\ otherSpeakersInPreReading(primaryEvent) # {})
              => secondaryEvent = firstOf(otherSpeakersInPreReading(primaryEvent))

\* a tie on the lowest word_index between two later events while the first
\* event has an active word of a higher word_index, and two candidates of
\* the other speaker for the top box
C37_Witness ==
    /\ rendered
    /\ Cardinality(lowestCandidates) >= 2
    /\ 1 \in activeCandidates \ lowestCandidates
    /\ Cardinality(otherSpeakersInPreReading(primaryEvent)) >= 2

\* no word is active and several pre-reading windows contain adjustedTime
C37_WitnessPreReading ==
    /\ rendered
    /\ activeCandidates = {}
    /\ Cardinality(eventsInPreReading) >= 2
    /\ secondaryEvent # 0

====
